---- MODULE Spec2Model ----
(***************************************************************************)
(* Verification model of the vitals / biometrics tracker: the in-memory    *)
(* event log (package memory), the weight, water and charts services       *)
(* (package app) and the unit converter (package domain).                  *)
(*                                                                         *)
(* Time is counted in ticks; DayLen ticks make 24 hours.  An instant is an *)
(* integer number of ticks in UTC.  A local calendar day ("2006-01-02") is *)
(* the integer number of the day.  time.Local is a zone with at most one   *)
(* daylight-saving transition, one tick wide, at the instant TransitionAt. *)
(* A weight or a water amount is an integer; a converted weight carries    *)
(* the power of the factor kgToLb it was multiplied by.                    *)
(***************************************************************************)
EXTENDS Integers, Sequences, FiniteSets, TLC

VARIABLES
    dstShift,         \* time.Local: offset change at TransitionAt (0: none)
    now,              \* the wall clock read by time.Now()
    weights,          \* DB.weights
    waterEvents,      \* DB.waterEvents
    weightIDCounter,  \* DB.weightIDCounter
    waterIDCounter,   \* DB.waterIDCounter
    req,              \* per request goroutine: operation, position, locals, result
    users,            \* DB.users
    sessions,         \* DB.sessions, or the rows of the sessions table
    userIDCounter,    \* DB.userIDCounter
    useMemory,        \* main: the repositories are the in-memory ones, not PostgreSQL
    tokens            \* the tokens generateToken has returned so far

vars == <<dstShift, now, weights, waterEvents, weightIDCounter, waterIDCounter, req,
          users, sessions, userIDCounter, useMemory, tokens>>

\* The state of the user and session repositories.
authVars == <<users, sessions, userIDCounter, useMemory, tokens>>

----------------------------------------------------------------------------
(* Bounds of the model *)

MaxTime == 6          \* the clock stops advancing here
MaxChartTime == 7     \* the same, in a run of the charts service
MaxWeightEvents == 2  \* AddWeightEvent calls in one run
MaxWaterEvents == 2   \* AddWaterEvent calls in one run
MaxChartEvents == 2   \* events in the log of a run of the charts service
MaxLogEvents == 2     \* events appended in a run of all the services
MaxFaultyEvents == 1  \* events appended in a run over a repository that may fail
MaxTokens == 2        \* sessions created in a run of the auth service
MaxAuthTime == 8      \* the clock stops advancing here in such a run
MaxHandlerTime == 7   \* the clock stops advancing here in a run of the handlers
MaxLogTime == 5       \* the clock stops advancing here in such a run

(* Program constants *)

DayLen == 3           \* 24 * time.Hour, in ticks
MaxDays == 366        \* the clamp of GetDaily
MaxDelta == 10        \* RecordEvent accepts [-10, 10]

TransitionAt == DayLen + 2

\* The clock at the start: the second tick of day 1.
StartTime == DayLen + 1

\* The clock at the start of a run of the charts service: midnight of day 2
\* in a zone without offset change.
ChartStartTime == 2 * DayLen

Users == {1, 2}
Procs == {"g1", "g2"}
Shifts == {-1, 0, 1}

----------------------------------------------------------------------------
(* time.Local *)

\* Offset of local time from UTC at the instant t.
ZoneOffset(t) == IF t < TransitionAt THEN 0 ELSE dstShift

\* The wall reading of the instant t in time.Local.
Wall(t) == t + ZoneOffset(t)

\* t.In(time.Local).Format("2006-01-02")
localDayString(t) == Wall(t) \div DayLen

\* time.Date in a location: the instant whose local reading is the wall time
\* w; the offset is looked up at w taken as UTC, and again at the result
\* when that falls on the other side of the transition.
DateInLocal(w) ==
    LET off == ZoneOffset(w)
        utc == w - off
    IN  IF off # 0 /\ ZoneOffset(utc) # off THEN w - ZoneOffset(utc) ELSE utc

\* t.AddDate(0, 0, days): time.Date of the wall reading of t moved by days.
AddDate(t, days) == DateInLocal(Wall(t) + days * DayLen)

\* time.ParseInLocation("2006-01-02", localDay, time.Local): local midnight.
ParseInLocation(localDay) == DateInLocal(localDay * DayLen)

\* dayStart, dayEnd of the repository queries.
DayStart(localDay) == ParseInLocation(localDay)

\* Mutant: the day ends one tick early.
DayEndShort(localDay) == DayStart(localDay) + DayLen - 1

DayEnd(localDay) == DayStart(localDay) + DayLen

\* Mutant: the end of the day belongs to the day.
InDayClosed(createdAt, localDay) ==
    /\ ~(createdAt < DayStart(localDay))
    /\ ~(createdAt > DayEnd(localDay))

\* !CreatedAt.Before(dayStart) && CreatedAt.Before(dayEnd)
InDay(createdAt, localDay) ==
    /\ ~(createdAt < DayStart(localDay))
    /\ createdAt < DayEnd(localDay)

----------------------------------------------------------------------------
(* package domain *)

Nil == [nil |-> TRUE]

NoDay == <<>>

\* A float64 weight: num * kgToLb^lbPow.
Real(n) == [num |-> n, lbPow |-> 0]

\* Mutant: the factor is applied the wrong way round.
ConvertWeightInverted(v, from, to) ==
    IF from = to THEN v
    ELSE IF from = "kg" /\ to = "lb" THEN [v EXCEPT !.lbPow = @ - 1]
    ELSE IF from = "lb" /\ to = "kg" THEN [v EXCEPT !.lbPow = @ + 1]
    ELSE v

\* Mutant: every unit that is not lb is taken for kg.
ConvertWeightKgDefault(v, from, to) ==
    IF from = to THEN v
    ELSE IF to = "lb" THEN [v EXCEPT !.lbPow = @ + 1]
    ELSE IF from = "lb" THEN [v EXCEPT !.lbPow = @ - 1]
    ELSE v

\* ConvertWeight: v * kgToLb, v / kgToLb, or v.
ConvertWeight(v, from, to) ==
    IF from = to THEN v
    ELSE IF from = "kg" /\ to = "lb" THEN [v EXCEPT !.lbPow = @ + 1]
    ELSE IF from = "lb" /\ to = "kg" THEN [v EXCEPT !.lbPow = @ - 1]
    ELSE v

----------------------------------------------------------------------------
(* package memory: WeightRepository *)

RemoveAt(s, i) == SubSeq(s, 1, i - 1) \o SubSeq(s, i + 1, Len(s))

WeightEntry(id, userID, value, unit, createdAt) ==
    [ID |-> id, UserID |-> userID, Value |-> value, Unit |-> unit,
     CreatedAt |-> createdAt, Day |-> NoDay]

\* The slice after AddWeightEvent.
\* Mutant: keeps one event per user, overwriting the one the user has.
AddWeightEventUpsert(ws, id, userID, value, unit, createdAt) ==
    LET mine == {i \in 1..Len(ws) : ws[i].UserID = userID}
    IN  IF mine = {} THEN Append(ws, WeightEntry(id, userID, value, unit, createdAt))
        ELSE [ws EXCEPT ![CHOOSE i \in mine : TRUE] =
                            WeightEntry(id, userID, value, unit, createdAt)]

AddWeightEvent(ws, id, userID, value, unit, createdAt) ==
    Append(ws, WeightEntry(id, userID, value, unit, createdAt))

\* Mutant: the last entry of the user in slice order, whatever its CreatedAt.
RECURSIVE latestWeightIdxLastAppended(_, _, _, _)
latestWeightIdxLastAppended(ws, userID, i, lastIdx) ==
    IF i > Len(ws) THEN lastIdx
    ELSE IF ws[i].UserID # userID THEN latestWeightIdxLastAppended(ws, userID, i + 1, lastIdx)
    ELSE latestWeightIdxLastAppended(ws, userID, i + 1, i)

\* Mutant: the comparison is inverted, the earliest entry of the user wins.
latestWeightIdxEarliest(ws, userID, i, lastIdx) ==
    LET mine == {j \in i..Len(ws) : ws[j].UserID = userID}
    IN  IF mine = {} THEN lastIdx
        ELSE CHOOSE j \in mine : \A k \in mine :
                ws[j].CreatedAt < ws[k].CreatedAt \/ (ws[j].CreatedAt = ws[k].CreatedAt /\ j <= k)

\* The loop of DeleteLatestWeightEvent from index i on: the index of the
\* user's entry with the latest CreatedAt, 0 for none (lastIdx == -1).
RECURSIVE latestWeightIdx(_, _, _, _)
latestWeightIdx(ws, userID, i, lastIdx) ==
    IF i > Len(ws) THEN lastIdx
    ELSE IF ws[i].UserID # userID THEN latestWeightIdx(ws, userID, i + 1, lastIdx)
    ELSE IF lastIdx = 0 \/ ws[i].CreatedAt > ws[lastIdx].CreatedAt
         THEN latestWeightIdx(ws, userID, i + 1, i)
         ELSE latestWeightIdx(ws, userID, i + 1, lastIdx)

\* Mutant: removes the entry with the latest CreatedAt of any user.
DeleteLatestWeightEventAnyUser(ws, userID) ==
    IF Len(ws) = 0 THEN [weights |-> ws, deleted |-> FALSE]
    ELSE [weights |-> RemoveAt(ws, CHOOSE i \in 1..Len(ws) :
                                        \A j \in 1..Len(ws) : ws[j].CreatedAt <= ws[i].CreatedAt),
          deleted |-> TRUE]

\* DeleteLatestWeightEvent: the slice after the call and the value returned.
DeleteLatestWeightEvent(ws, userID) ==
    LET lastIdx == latestWeightIdx(ws, userID, 1, 0)
    IN  IF Len(ws) = 0 THEN [weights |-> ws, deleted |-> FALSE]
        ELSE IF lastIdx # 0 THEN [weights |-> RemoveAt(ws, lastIdx), deleted |-> TRUE]
        ELSE [weights |-> ws, deleted |-> FALSE]

\* Mutant: the last entry of the day in slice order, whatever its CreatedAt.
RECURSIVE latestInDayIdxLastAppended(_, _, _, _, _)
latestInDayIdxLastAppended(ws, userID, localDay, i, latest) ==
    IF i > Len(ws) THEN latest
    ELSE IF ws[i].UserID = userID /\ InDay(ws[i].CreatedAt, localDay)
         THEN latestInDayIdxLastAppended(ws, userID, localDay, i + 1, i)
         ELSE latestInDayIdxLastAppended(ws, userID, localDay, i + 1, latest)

\* The loop of LatestWeightForLocalDay from index i on: the index of the
\* user's latest entry inside the day, 0 for none (latest == nil).
RECURSIVE latestInDayIdx(_, _, _, _, _)
latestInDayIdx(ws, userID, localDay, i, latest) ==
    IF i > Len(ws) THEN latest
    ELSE IF ws[i].UserID # userID THEN latestInDayIdx(ws, userID, localDay, i + 1, latest)
    ELSE IF InDay(ws[i].CreatedAt, localDay)
            /\ (latest = 0 \/ ws[i].CreatedAt > ws[latest].CreatedAt)
         THEN latestInDayIdx(ws, userID, localDay, i + 1, i)
         ELSE latestInDayIdx(ws, userID, localDay, i + 1, latest)

\* LatestWeightForLocalDay: a copy of the entry with Day set, or Nil.
LatestWeightForLocalDay(ws, userID, localDay) ==
    LET latest == latestInDayIdx(ws, userID, localDay, 1, 0)
    IN  IF latest # 0 THEN [ws[latest] EXCEPT !.Day = <<localDay>>] ELSE Nil

\* The filter loop of the two ListRecent functions.
RECURSIVE filterUser(_, _)
filterUser(s, userID) ==
    IF s = <<>> THEN <<>>
    ELSE IF Head(s).UserID = userID
         THEN <<Head(s)>> \o filterUser(Tail(s), userID)
         ELSE filterUser(Tail(s), userID)

\* Mutant: the orderings of s by ascending CreatedAt.
SortedAsc(s) ==
    LET n == Len(s)
        perms == {f \in [1..n -> 1..n] : \A i, j \in 1..n : i # j => f[i] # f[j]}
        ok(f) == \A i \in 1..n : \A j \in 1..n :
                    i < j => ~(s[f[j]].CreatedAt < s[f[i]].CreatedAt)
    IN  {[i \in 1..n |-> s[f[i]]] : f \in {g \in perms : ok(g)}}

\* sort.Slice with less = CreatedAt.After: every ordering of s that the
\* (unstable) sort may produce.
SortedDesc(s) ==
    LET n == Len(s)
        perms == {f \in [1..n -> 1..n] : \A i, j \in 1..n : i # j => f[i] # f[j]}
        ok(f) == \A i \in 1..n : \A j \in 1..n :
                    i < j => ~(s[f[j]].CreatedAt > s[f[i]].CreatedAt)
    IN  {[i \in 1..n |-> s[f[i]]] : f \in {g \in perms : ok(g)}}

\* Mutant: the last limit elements are kept.
TruncateTail(s, limit) == IF Len(s) > limit THEN SubSeq(s, Len(s) - limit + 1, Len(s)) ELSE s

\* filtered[:limit]
Truncate(s, limit) == IF Len(s) > limit THEN SubSeq(s, 1, limit) ELSE s

\* ListRecentWeightEvents: the results the call may return.
ListRecentWeightEvents(ws, userID, limit) ==
    {[i \in 1..Len(t) |-> [t[i] EXCEPT !.Day = <<localDayString(t[i].CreatedAt)>>]] :
        t \in {Truncate(f, limit) : f \in SortedDesc(filterUser(ws, userID))}}

----------------------------------------------------------------------------
(* package memory: WaterRepository *)

WaterEvent(id, userID, deltaLiters, createdAt) ==
    [ID |-> id, UserID |-> userID, DeltaLiters |-> deltaLiters, CreatedAt |-> createdAt]

AddWaterEvent(es, id, userID, deltaLiters, createdAt) ==
    Append(es, WaterEvent(id, userID, deltaLiters, createdAt))

\* Mutant: the search misses the first position it is asked to look at.
waterIdxSkipFirst(es, userID, id, i) ==
    LET hit == {j \in (i + 1)..Len(es) : es[j].ID = id /\ es[j].UserID = userID}
    IN  IF hit = {} THEN 0 ELSE CHOOSE j \in hit : \A k \in hit : j <= k

\* Mutant: finds the event by its id alone.
waterIdxAnyUser(es, userID, id, i) ==
    LET hit == {j \in i..Len(es) : es[j].ID = id}
    IN  IF hit = {} THEN 0 ELSE CHOOSE j \in hit : \A k \in hit : j <= k

\* The loop of DeleteWaterEvent from index i on: the first index holding the
\* id for the user, 0 for none.
RECURSIVE waterIdx(_, _, _, _)
waterIdx(es, userID, id, i) ==
    IF i > Len(es) THEN 0
    ELSE IF es[i].ID = id /\ es[i].UserID = userID THEN i
    ELSE waterIdx(es, userID, id, i + 1)

\* Mutant: removes the user's event with the latest CreatedAt, whatever the id.
DeleteLatestWaterEvent(es, userID, id) ==
    LET mine == {i \in 1..Len(es) : es[i].UserID = userID}
    IN  IF mine = {} THEN es
        ELSE RemoveAt(es, CHOOSE i \in mine : \A j \in mine : es[j].CreatedAt <= es[i].CreatedAt)

\* DeleteWaterEvent: the slice after the call.
DeleteWaterEvent(es, userID, id) ==
    LET i == waterIdx(es, userID, id, 1)
    IN  IF i # 0 THEN RemoveAt(es, i) ELSE es

ListRecentWaterEvents(es, userID, limit) ==
    {Truncate(f, limit) : f \in SortedDesc(filterUser(es, userID))}

\* Mutant: the total of the day over the events of every user.
RECURSIVE waterTotalFromAllUsers(_, _, _, _, _)
waterTotalFromAllUsers(es, userID, localDay, i, total) ==
    IF i > Len(es) THEN total
    ELSE IF InDay(es[i].CreatedAt, localDay)
         THEN waterTotalFromAllUsers(es, userID, localDay, i + 1, total + es[i].DeltaLiters)
         ELSE waterTotalFromAllUsers(es, userID, localDay, i + 1, total)

\* The loop of WaterTotalForLocalDay from index i on.
RECURSIVE waterTotalFrom(_, _, _, _, _)
waterTotalFrom(es, userID, localDay, i, total) ==
    IF i > Len(es) THEN total
    ELSE IF es[i].UserID # userID THEN waterTotalFrom(es, userID, localDay, i + 1, total)
    ELSE IF InDay(es[i].CreatedAt, localDay)
         THEN waterTotalFrom(es, userID, localDay, i + 1, total + es[i].DeltaLiters)
         ELSE waterTotalFrom(es, userID, localDay, i + 1, total)

WaterTotalForLocalDay(es, userID, localDay) == waterTotalFrom(es, userID, localDay, 1, 0)

----------------------------------------------------------------------------
(* Requests.  Each request runs in its own goroutine; every repository     *)
(* call holds db.mu for its whole body, so a request is a sequence of      *)
(* atomic steps, one per repository call.  A request record holds the      *)
(* arguments, the locals and, in ret, the values returned.  Its field      *)
(* removed is a history field: the events its DeleteWaterEvent call took   *)
(* out of the slice, each with the answer to "was a later event of the     *)
(* user in the slice at that moment".  Its field failed is a history       *)
(* field: the number, in the order of the request's repository calls, of   *)
(* the call that returned an error, 0 for none.  Its field status is the   *)
(* HTTP status the handler has written for it, 0 before it has.  Its field  *)
(* stored is a history field: the session, or the user, the repository     *)
(* held for the token, or the name, when the request began (nil if none).  *)

IdleReq ==
    [op |-> "none", pc |-> "idle", userID |-> 0, value |-> Real(0), unit |-> "",
     deltaLiters |-> 0, limit |-> 0, days |-> 0, now |-> 0, today |-> NoDay,
     deleted |-> FALSE, id |-> 0, items |-> <<>>, removed |-> <<>>, failed |-> 0,
     status |-> 0, username |-> "", userAgent |-> "", token |-> 0, session |-> Nil,
     stored |-> Nil, handler |-> "", hToday |-> NoDay, ret |-> Nil]

ValueInputs == {Real(0 - 5), Real(0), Real(80)}
UnitInputs == {"kg", "lb", "stones"}
DeltaInputs == {0 - 11, 0 - 10, 0, 10, 11}
DayInputs == 0 .. (MaxTime \div DayLen)
LimitInputs == {1, 2}
\* (days, unit) of the GetDaily requests.
ChartInputs ==
    ({0, 2} \X UnitInputs) \cup ({MaxDays + 1} \X {"kg", "stones"})

\* No request is running.
Idle == \A p \in Procs : req[p].pc = "idle"

\* No request is between two of its repository calls.
Quiet == \A p \in Procs : req[p].pc \in {"idle", "done"}

Tick(max) ==
    /\ now < max
    /\ now' = now + 1
    /\ UNCHANGED <<dstShift, weights, waterEvents, weightIDCounter, waterIDCounter, req>>
    /\ UNCHANGED authVars

\* The wall clock is set back (time.Now() is not monotonic across calls).
ClockBack ==
    /\ \E t \in StartTime .. (now - 1) : now' = t
    /\ UNCHANGED <<dstShift, weights, waterEvents, weightIDCounter, waterIDCounter, req>>
    /\ UNCHANGED authVars

Return(p) ==
    /\ req[p].pc = "done"
    /\ req' = [req EXCEPT ![p] = IdleReq]
    /\ UNCHANGED <<dstShift, now, weights, waterEvents, weightIDCounter, waterIDCounter>>
    /\ UNCHANGED authVars

----------------------------------------------------------------------------
(* package app: WeightService *)

\* Mutant: the value check accepts 0.
RecordWeightCheckAcceptsZero(value, unit) ==
    IF value.num < 0 THEN "value must be > 0"
    ELSE IF unit # "kg" /\ unit # "lb" THEN "unit must be kg or lb"
    ELSE "ok"

\* The validation of RecordWeight: the error it returns, "ok" for none.
RecordWeightCheck(value, unit) ==
    IF value.num <= 0 THEN "value must be > 0"
    ELSE IF unit # "kg" /\ unit # "lb" THEN "unit must be kg or lb"
    ELSE "ok"

\* RecordWeight up to the call of AddWeightEvent: validation, time.Now().
RecordWeightBegin(p, userID, value, unit) ==
    /\ req[p].pc = "idle"
    /\ LET err == RecordWeightCheck(value, unit)
       IN  req' = [req EXCEPT ![p] =
                IF err # "ok"
                THEN [IdleReq EXCEPT !.op = "RecordWeight", !.pc = "done", !.userID = userID,
                                     !.value = value, !.unit = unit,
                                     !.handler = req[p].handler, !.hToday = req[p].hToday,
                                     !.ret = [entry |-> Nil, today |-> NoDay, err |-> err]]
                ELSE [IdleReq EXCEPT !.op = "RecordWeight", !.pc = "add", !.userID = userID,
                                     !.value = value, !.unit = unit, !.now = now,
                                     !.handler = req[p].handler, !.hToday = req[p].hToday,
                                     !.today = <<localDayString(now)>>]]
    /\ UNCHANGED <<dstShift, now, weights, waterEvents, weightIDCounter, waterIDCounter>>
    /\ UNCHANGED authVars

\* s.repo.AddWeightEvent(ctx, userID, value, unit, now)
RecordWeightAdd(p) ==
    /\ req[p].op = "RecordWeight" /\ req[p].pc = "add"
    /\ weightIDCounter < MaxWeightEvents
    /\ weightIDCounter' = weightIDCounter + 1
    /\ weights' = AddWeightEvent(weights, weightIDCounter + 1, req[p].userID,
                                 req[p].value, req[p].unit, req[p].now)
    /\ req' = [req EXCEPT ![p].pc = "reread", ![p].id = weightIDCounter + 1, ![p].now = 0]
    /\ UNCHANGED <<dstShift, now, waterEvents, waterIDCounter>>
    /\ UNCHANGED authVars

\* Mutant: RecordWeight returns the event it inserted, without the re-read.
RecordWeightRereadOwn(p) ==
    /\ req[p].op = "RecordWeight" /\ req[p].pc = "reread"
    /\ \E i \in 1..Len(weights) :
        /\ weights[i].ID = req[p].id
        /\ req' = [req EXCEPT ![p].pc = "done",
                              ![p].ret = [entry |-> [weights[i] EXCEPT !.Day = req[p].today],
                                          today |-> req[p].today, err |-> "ok"]]
    /\ UNCHANGED <<dstShift, now, weights, waterEvents, weightIDCounter, waterIDCounter>>
    /\ UNCHANGED authVars

\* entry, err := s.repo.LatestWeightForLocalDay(ctx, userID, today); return
RecordWeightReread(p) ==
    /\ req[p].op = "RecordWeight" /\ req[p].pc = "reread"
    /\ req' = [req EXCEPT ![p].pc = "done",
                          ![p].ret = [entry |-> LatestWeightForLocalDay(weights, req[p].userID,
                                                                        Head(req[p].today)),
                                      today |-> req[p].today, err |-> "ok"]]
    /\ UNCHANGED <<dstShift, now, weights, waterEvents, weightIDCounter, waterIDCounter>>
    /\ UNCHANGED authVars

\* UndoLast up to the call of DeleteLatestWeightEvent: time.Now().
WeightUndoLastBegin(p, userID) ==
    /\ req[p].pc = "idle"
    /\ req' = [req EXCEPT ![p] = [IdleReq EXCEPT !.op = "WeightUndoLast", !.pc = "delete",
                                                 !.userID = userID, !.now = now,
                                                 !.today = <<localDayString(now)>>]]
    /\ UNCHANGED <<dstShift, now, weights, waterEvents, weightIDCounter, waterIDCounter>>
    /\ UNCHANGED authVars

\* deleted, err := s.repo.DeleteLatestWeightEvent(ctx, userID)
WeightUndoLastDelete(p) ==
    /\ req[p].op = "WeightUndoLast" /\ req[p].pc = "delete"
    /\ LET r == DeleteLatestWeightEvent(weights, req[p].userID)
       IN  /\ weights' = r.weights
           /\ req' = [req EXCEPT ![p].pc = "reread", ![p].deleted = r.deleted]
    /\ UNCHANGED <<dstShift, now, waterEvents, weightIDCounter, waterIDCounter>>
    /\ UNCHANGED authVars

\* entry, _ := s.repo.LatestWeightForLocalDay(ctx, userID, today); return
WeightUndoLastReread(p) ==
    /\ req[p].op = "WeightUndoLast" /\ req[p].pc = "reread"
    /\ req' = [req EXCEPT ![p].pc = "done",
                          ![p].ret = [deleted |-> req[p].deleted,
                                      entry |-> LatestWeightForLocalDay(weights, req[p].userID,
                                                                        Head(req[p].today)),
                                      today |-> req[p].today, err |-> "ok"]]
    /\ UNCHANGED <<dstShift, now, weights, waterEvents, weightIDCounter, waterIDCounter>>
    /\ UNCHANGED authVars

\* GetTodayWeight(ctx, userID, today)
GetTodayWeight(p, userID, today) ==
    /\ req[p].pc = "idle"
    /\ req' = [req EXCEPT ![p] =
            [IdleReq EXCEPT !.op = "GetTodayWeight", !.pc = "done", !.userID = userID,
                            !.today = <<today>>,
                            !.ret = [entry |-> LatestWeightForLocalDay(weights, userID, today),
                                     err |-> "ok"]]]
    /\ UNCHANGED <<dstShift, now, weights, waterEvents, weightIDCounter, waterIDCounter>>
    /\ UNCHANGED authVars

\* WeightService.ListRecent(ctx, userID, limit)
WeightListRecent(p, userID, limit) ==
    /\ req[p].pc = "idle"
    /\ \E items \in ListRecentWeightEvents(weights, userID, limit) :
        req' = [req EXCEPT ![p] =
            [IdleReq EXCEPT !.op = "WeightListRecent", !.pc = "done", !.userID = userID,
                            !.limit = limit, !.ret = [items |-> items, err |-> "ok"]]]
    /\ UNCHANGED <<dstShift, now, weights, waterEvents, weightIDCounter, waterIDCounter>>
    /\ UNCHANGED authVars

----------------------------------------------------------------------------
(* package app: WaterService *)

\* Mutant: the bounds -10 and 10 themselves are rejected.
RecordEventCheckOpenBounds(deltaLiters) ==
    IF deltaLiters = 0 \/ deltaLiters <= 0 - MaxDelta \/ deltaLiters >= MaxDelta
    THEN "deltaLiters must be non-zero and within [-10, 10]"
    ELSE "ok"

\* The validation of RecordEvent.
RecordEventCheck(deltaLiters) ==
    IF deltaLiters = 0 \/ deltaLiters < 0 - MaxDelta \/ deltaLiters > MaxDelta
    THEN "deltaLiters must be non-zero and within [-10, 10]"
    ELSE "ok"

\* RecordEvent up to the call of AddWaterEvent: validation, time.Now().
RecordEventBegin(p, userID, deltaLiters) ==
    /\ req[p].pc = "idle"
    /\ LET err == RecordEventCheck(deltaLiters)
       IN  req' = [req EXCEPT ![p] =
                IF err # "ok"
                THEN [IdleReq EXCEPT !.op = "RecordEvent", !.pc = "done", !.userID = userID,
                                     !.deltaLiters = deltaLiters,
                                     !.ret = [id |-> 0, err |-> err]]
                ELSE [IdleReq EXCEPT !.op = "RecordEvent", !.pc = "add", !.userID = userID,
                                     !.deltaLiters = deltaLiters, !.now = now]]
    /\ UNCHANGED <<dstShift, now, weights, waterEvents, weightIDCounter, waterIDCounter>>
    /\ UNCHANGED authVars

\* return s.repo.AddWaterEvent(ctx, userID, deltaLiters, now)
RecordEventAdd(p) ==
    /\ req[p].op = "RecordEvent" /\ req[p].pc = "add"
    /\ waterIDCounter < MaxWaterEvents
    /\ waterIDCounter' = waterIDCounter + 1
    /\ waterEvents' = AddWaterEvent(waterEvents, waterIDCounter + 1, req[p].userID,
                                    req[p].deltaLiters, req[p].now)
    /\ req' = [req EXCEPT ![p].pc = "done", ![p].id = waterIDCounter + 1,
                          ![p].ret = [id |-> waterIDCounter + 1, err |-> "ok"]]
    /\ UNCHANGED <<dstShift, now, weights, weightIDCounter>>
    /\ UNCHANGED authVars

\* items, err := s.repo.ListRecentWaterEvents(ctx, userID, 1), and the
\* return for an empty list.
WaterUndoLastList(p, userID) ==
    /\ req[p].pc = "idle"
    /\ \E items \in ListRecentWaterEvents(waterEvents, userID, 1) :
        req' = [req EXCEPT ![p] =
            IF Len(items) = 0
            THEN [IdleReq EXCEPT !.op = "WaterUndoLast", !.pc = "done", !.userID = userID,
                                 !.ret = [undone |-> FALSE, id |-> 0, err |-> "ok"]]
            ELSE [IdleReq EXCEPT !.op = "WaterUndoLast", !.pc = "delete", !.userID = userID,
                                 !.items = items]]
    /\ UNCHANGED <<dstShift, now, weights, waterEvents, weightIDCounter, waterIDCounter>>
    /\ UNCHANGED authVars

\* History of a DeleteWaterEvent call on the slice es.
RemovedBy(es, userID, id) ==
    LET i == waterIdx(es, userID, id, 1)
    IN  IF i = 0 THEN <<>>
        ELSE <<[event |-> es[i],
                stale |-> \E j \in 1..Len(es) :
                            es[j].UserID = userID /\ es[j].CreatedAt > es[i].CreatedAt]>>

\* s.repo.DeleteWaterEvent(ctx, userID, items[0].ID); return true, id
WaterUndoLastDelete(p) ==
    /\ req[p].op = "WaterUndoLast" /\ req[p].pc = "delete"
    /\ waterEvents' = DeleteWaterEvent(waterEvents, req[p].userID, req[p].items[1].ID)
    /\ req' = [req EXCEPT ![p].pc = "done",
                          ![p].removed = RemovedBy(waterEvents, req[p].userID, req[p].items[1].ID),
                          ![p].ret = [undone |-> TRUE, id |-> req[p].items[1].ID, err |-> "ok"]]
    /\ UNCHANGED <<dstShift, now, weights, weightIDCounter, waterIDCounter>>
    /\ UNCHANGED authVars

\* GetTodayTotal(ctx, userID, today)
GetTodayTotal(p, userID, today) ==
    /\ req[p].pc = "idle"
    /\ req' = [req EXCEPT ![p] =
            [IdleReq EXCEPT !.op = "GetTodayTotal", !.pc = "done", !.userID = userID,
                            !.today = <<today>>,
                            !.ret = [total |-> WaterTotalForLocalDay(waterEvents, userID, today),
                                     err |-> "ok"]]]
    /\ UNCHANGED <<dstShift, now, weights, waterEvents, weightIDCounter, waterIDCounter>>
    /\ UNCHANGED authVars

\* WaterService.ListRecent(ctx, userID, limit)
WaterListRecent(p, userID, limit) ==
    /\ req[p].pc = "idle"
    /\ \E items \in ListRecentWaterEvents(waterEvents, userID, limit) :
        req' = [req EXCEPT ![p] =
            [IdleReq EXCEPT !.op = "WaterListRecent", !.pc = "done", !.userID = userID,
                            !.limit = limit, !.ret = [items |-> items, err |-> "ok"]]]
    /\ UNCHANGED <<dstShift, now, weights, waterEvents, weightIDCounter, waterIDCounter>>
    /\ UNCHANGED authVars

----------------------------------------------------------------------------
(* package app: ChartsService *)

\* Mutant: no clamp.
ClampDaysNone(days) == days

\* days after the clamp of GetDaily.
ClampDays(days) == IF days > MaxDays THEN MaxDays ELSE days

\* One iteration of the loop of GetDaily: the DayPoint of today.AddDate(0, 0, -i).
DayPoint(ws, es, userID, today, i, unit) ==
    LET d == AddDate(today, 0 - i)
        dayStr == localDayString(d)
        waterLiters == WaterTotalForLocalDay(es, userID, dayStr)
        entry == LatestWeightForLocalDay(ws, userID, dayStr)
        wp == IF entry # Nil
              THEN [Value |-> IF entry.Unit # unit
                              THEN ConvertWeight(entry.Value, entry.Unit, unit)
                              ELSE entry.Value,
                    Unit |-> unit]
              ELSE Nil
    IN  [Day |-> dayStr, WaterLiters |-> waterLiters, Weight |-> wp]

\* The points GetDaily appends for i = days-1 down to 0, in that order.
DailyPoints(ws, es, userID, today, days, unit) ==
    [k \in 1..(IF days > 0 THEN days ELSE 0) |-> DayPoint(ws, es, userID, today, days - k, unit)]

\* make([]DayPoint, 0, cap) returns; with a negative cap it panics
\* (makeslice: cap out of range).
MakeSlice(cap) == cap >= 0

\* GetDaily(ctx, userID, days, unit): its repository calls only read, and
\* each iteration's two reads touch different slices.
GetDaily(p, userID, days, unit) ==
    /\ req[p].pc = "idle"
    /\ req' = [req EXCEPT ![p] =
            IF unit # "kg" /\ unit # "lb"
            THEN [IdleReq EXCEPT !.op = "GetDaily", !.pc = "done", !.userID = userID,
                                 !.unit = unit, !.days = days,
                                 !.handler = req[p].handler,
                                 !.ret = [points |-> Nil, err |-> "unit must be kg or lb"]]
            ELSE IF ~MakeSlice(ClampDays(days))
            THEN [IdleReq EXCEPT !.op = "GetDaily", !.pc = "panic", !.userID = userID,
                                 !.unit = unit, !.days = days, !.now = now,
                                 !.handler = req[p].handler,
                                 !.today = <<localDayString(now)>>]
            ELSE [IdleReq EXCEPT !.op = "GetDaily", !.pc = "done", !.userID = userID,
                                 !.unit = unit, !.days = days, !.now = now,
                                 !.handler = req[p].handler,
                                 !.today = <<localDayString(now)>>,
                                 !.ret = [points |-> DailyPoints(weights, waterEvents, userID,
                                                                 now, ClampDays(days), unit),
                                          err |-> "ok"]]]
    /\ UNCHANGED <<dstShift, now, weights, waterEvents, weightIDCounter, waterIDCounter>>
    /\ UNCHANGED authVars

----------------------------------------------------------------------------
(* The services over a repository whose calls may return an error (the     *)
(* PostgreSQL adapter).  A call that returns an error has changed nothing  *)
(* and returns the zero value with it.                                     *)

StorageErr == "storage failure"

\* RecordWeight: s.repo.AddWeightEvent returns an error.
RecordWeightAddFail(p) ==
    /\ req[p].op = "RecordWeight" /\ req[p].pc = "add"
    /\ req' = [req EXCEPT ![p].pc = "done", ![p].failed = 1,
                          ![p].ret = [entry |-> Nil, today |-> req[p].today, err |-> StorageErr]]
    /\ UNCHANGED <<dstShift, now, weights, waterEvents, weightIDCounter, waterIDCounter>>
    /\ UNCHANGED authVars

\* RecordWeight: s.repo.LatestWeightForLocalDay returns an error.
RecordWeightRereadFail(p) ==
    /\ req[p].op = "RecordWeight" /\ req[p].pc = "reread"
    /\ req' = [req EXCEPT ![p].pc = "done", ![p].failed = 2,
                          ![p].ret = [entry |-> Nil, today |-> req[p].today, err |-> StorageErr]]
    /\ UNCHANGED <<dstShift, now, weights, waterEvents, weightIDCounter, waterIDCounter>>
    /\ UNCHANGED authVars

\* UndoLast: s.repo.DeleteLatestWeightEvent returns an error.
WeightUndoLastDeleteFail(p) ==
    /\ req[p].op = "WeightUndoLast" /\ req[p].pc = "delete"
    /\ req' = [req EXCEPT ![p].pc = "done", ![p].failed = 1,
                          ![p].ret = [deleted |-> FALSE, entry |-> Nil, today |-> req[p].today,
                                      err |-> StorageErr]]
    /\ UNCHANGED <<dstShift, now, weights, waterEvents, weightIDCounter, waterIDCounter>>
    /\ UNCHANGED authVars

\* UndoLast: s.repo.LatestWeightForLocalDay returns an error, which
\* entry, _ := drops.
WeightUndoLastRereadFail(p) ==
    /\ req[p].op = "WeightUndoLast" /\ req[p].pc = "reread"
    /\ req' = [req EXCEPT ![p].pc = "done", ![p].failed = 2,
                          ![p].ret = [deleted |-> req[p].deleted, entry |-> Nil,
                                      today |-> req[p].today, err |-> "ok"]]
    /\ UNCHANGED <<dstShift, now, weights, waterEvents, weightIDCounter, waterIDCounter>>
    /\ UNCHANGED authVars

\* GetTodayWeight: s.repo.LatestWeightForLocalDay returns an error.
GetTodayWeightFail(p, userID, today) ==
    /\ req[p].pc = "idle"
    /\ req' = [req EXCEPT ![p] =
            [IdleReq EXCEPT !.op = "GetTodayWeight", !.pc = "done", !.userID = userID,
                            !.today = <<today>>, !.failed = 1,
                            !.ret = [entry |-> Nil, err |-> StorageErr]]]
    /\ UNCHANGED <<dstShift, now, weights, waterEvents, weightIDCounter, waterIDCounter>>
    /\ UNCHANGED authVars

\* WeightService.ListRecent: s.repo.ListRecentWeightEvents returns an error.
WeightListRecentFail(p, userID, limit) ==
    /\ req[p].pc = "idle"
    /\ req' = [req EXCEPT ![p] =
            [IdleReq EXCEPT !.op = "WeightListRecent", !.pc = "done", !.userID = userID,
                            !.limit = limit, !.failed = 1,
                            !.ret = [items |-> <<>>, err |-> StorageErr]]]
    /\ UNCHANGED <<dstShift, now, weights, waterEvents, weightIDCounter, waterIDCounter>>
    /\ UNCHANGED authVars

\* RecordEvent: s.repo.AddWaterEvent returns an error.
RecordEventAddFail(p) ==
    /\ req[p].op = "RecordEvent" /\ req[p].pc = "add"
    /\ req' = [req EXCEPT ![p].pc = "done", ![p].failed = 1,
                          ![p].ret = [id |-> 0, err |-> StorageErr]]
    /\ UNCHANGED <<dstShift, now, weights, waterEvents, weightIDCounter, waterIDCounter>>
    /\ UNCHANGED authVars

\* Water UndoLast: s.repo.ListRecentWaterEvents returns an error.
WaterUndoLastListFail(p, userID) ==
    /\ req[p].pc = "idle"
    /\ req' = [req EXCEPT ![p] =
            [IdleReq EXCEPT !.op = "WaterUndoLast", !.pc = "done", !.userID = userID,
                            !.failed = 1,
                            !.ret = [undone |-> FALSE, id |-> 0, err |-> StorageErr]]]
    /\ UNCHANGED <<dstShift, now, weights, waterEvents, weightIDCounter, waterIDCounter>>
    /\ UNCHANGED authVars

\* Water UndoLast: s.repo.DeleteWaterEvent returns an error.
WaterUndoLastDeleteFail(p) ==
    /\ req[p].op = "WaterUndoLast" /\ req[p].pc = "delete"
    /\ req' = [req EXCEPT ![p].pc = "done", ![p].failed = 2,
                          ![p].ret = [undone |-> FALSE, id |-> 0, err |-> StorageErr]]
    /\ UNCHANGED <<dstShift, now, weights, waterEvents, weightIDCounter, waterIDCounter>>
    /\ UNCHANGED authVars

\* GetTodayTotal: s.repo.WaterTotalForLocalDay returns an error.
GetTodayTotalFail(p, userID, today) ==
    /\ req[p].pc = "idle"
    /\ req' = [req EXCEPT ![p] =
            [IdleReq EXCEPT !.op = "GetTodayTotal", !.pc = "done", !.userID = userID,
                            !.today = <<today>>, !.failed = 1,
                            !.ret = [total |-> 0, err |-> StorageErr]]]
    /\ UNCHANGED <<dstShift, now, weights, waterEvents, weightIDCounter, waterIDCounter>>
    /\ UNCHANGED authVars

\* WaterService.ListRecent: s.repo.ListRecentWaterEvents returns an error.
WaterListRecentFail(p, userID, limit) ==
    /\ req[p].pc = "idle"
    /\ req' = [req EXCEPT ![p] =
            [IdleReq EXCEPT !.op = "WaterListRecent", !.pc = "done", !.userID = userID,
                            !.limit = limit, !.failed = 1,
                            !.ret = [items |-> <<>>, err |-> StorageErr]]]
    /\ UNCHANGED <<dstShift, now, weights, waterEvents, weightIDCounter, waterIDCounter>>
    /\ UNCHANGED authVars

\* GetDaily that asks the repository before it looks at the unit.
GetDailyFailAnyUnit(p, userID, days, unit, k) ==
    /\ req[p].pc = "idle"
    /\ k >= 1 /\ k <= 2 * ClampDays(days)
    /\ req' = [req EXCEPT ![p] =
            [IdleReq EXCEPT !.op = "GetDaily", !.pc = "done", !.userID = userID,
                            !.unit = unit, !.days = days, !.now = now,
                            !.today = <<localDayString(now)>>, !.failed = k,
                            !.ret = [points |-> Nil, err |-> StorageErr]]]
    /\ UNCHANGED <<dstShift, now, weights, waterEvents, weightIDCounter, waterIDCounter>>
    /\ UNCHANGED authVars

\* GetDaily that goes on to the next day when a query returns an error.
GetDailyFailSkipped(p, userID, days, unit, k) ==
    /\ req[p].pc = "idle"
    /\ unit = "kg" \/ unit = "lb"
    /\ k >= 1 /\ k <= 2 * ClampDays(days)
    /\ req' = [req EXCEPT ![p] =
            [IdleReq EXCEPT !.op = "GetDaily", !.pc = "done", !.userID = userID,
                            !.unit = unit, !.days = days, !.now = now,
                            !.today = <<localDayString(now)>>, !.failed = k,
                            !.ret = [points |-> DailyPoints(weights, waterEvents, userID,
                                                            now, ClampDays(days), unit),
                                     err |-> "ok"]]]
    /\ UNCHANGED <<dstShift, now, weights, waterEvents, weightIDCounter, waterIDCounter>>
    /\ UNCHANGED authVars

\* GetDaily: the k-th repository call of the loop returns an error (the
\* calls are WaterTotalForLocalDay then LatestWeightForLocalDay for each day,
\* oldest day first); the points computed so far are dropped.
GetDailyFail(p, userID, days, unit, k) ==
    /\ req[p].pc = "idle"
    /\ unit = "kg" \/ unit = "lb"
    /\ k >= 1 /\ k <= 2 * ClampDays(days)
    /\ req' = [req EXCEPT ![p] =
            [IdleReq EXCEPT !.op = "GetDaily", !.pc = "done", !.userID = userID,
                            !.unit = unit, !.days = days, !.now = now,
                            !.today = <<localDayString(now)>>, !.failed = k,
                            !.ret = [points |-> Nil, err |-> StorageErr]]]
    /\ UNCHANGED <<dstShift, now, weights, waterEvents, weightIDCounter, waterIDCounter>>
    /\ UNCHANGED authVars

----------------------------------------------------------------------------
(* package memory / postgres: UserRepository and SessionRepository.  The   *)
(* users are a sequence of records, the sessions the set of the values of  *)
(* the map DB.sessions (one per token).                                    *)

User(id, username, passwordHash) ==
    [ID |-> id, Username |-> username, PasswordHash |-> passwordHash]

\* GetByUsername: the first user of that name, nil (and no error) if none.
GetByUsername(us, username) ==
    LET hit == {i \in 1..Len(us) : us[i].Username = username}
    IN  IF hit = {} THEN Nil ELSE us[CHOOSE i \in hit : \A j \in hit : i <= j]

\* GetByID: the first user of that id, nil (and no error) if none.
GetByID(us, id) ==
    LET hit == {i \in 1..Len(us) : us[i].ID = id}
    IN  IF hit = {} THEN Nil ELSE us[CHOOSE i \in hit : \A j \in hit : i <= j]

\* Create: the error it returns.
UserCreateErr(us, username) ==
    IF \E i \in 1..Len(us) : us[i].Username = username THEN "user already exists" ELSE "ok"

\* Create: the users after a call that returns no error.
UserCreate(us, id, username, passwordHash) == Append(us, User(id, username, passwordHash))

Session(token, userID, userAgent, expiresAt) ==
    [Token |-> token, UserID |-> userID, UserAgent |-> userAgent, ExpiresAt |-> expiresAt]

\* SessionRepo.Create: r.db.sessions[token] = &domain.Session{...}.
SessionCreate(ss, sn) == {x \in ss : x.Token # sn.Token} \cup {sn}

\* The session stored under the token, nil if none.
SessionOf(ss, token) ==
    IF \E x \in ss : x.Token = token THEN CHOOSE x \in ss : x.Token = token ELSE Nil

\* SessionRepo.GetByToken at instant t: the session it returns.  Both
\* adapters return (nil, nil) for a token without session; the in-memory
\* one does so for an expired session as well.
GetByToken(mem, ss, token, t) ==
    LET sn == SessionOf(ss, token)
    IN  IF sn = Nil THEN Nil
        ELSE IF mem /\ t > sn.ExpiresAt THEN Nil
        ELSE sn

\* SessionRepo.GetByToken at instant t: the sessions after the call (the
\* in-memory adapter deletes an expired session it finds).
GetByTokenStore(mem, ss, token, t) ==
    LET sn == SessionOf(ss, token)
    IN  IF sn # Nil /\ mem /\ t > sn.ExpiresAt THEN ss \ {sn} ELSE ss

\* SessionRepo.Delete.
SessionDelete(ss, token) == {x \in ss : x.Token # token}

----------------------------------------------------------------------------
(* package app: AuthService, and the auth middleware of the HTTP adapter.  *)
(* A request that dereferences a nil pointer panics: its pc is "panic",    *)
(* it returns nothing, and net/http recovers the goroutine and closes the  *)
(* connection without a response.                                          *)

Usernames == {"alice", "bob"}
UserAgents == {"ua1", "ua2"}
Tokens == 1..MaxTokens

StatusOK == 200
StatusBadRequest == 400
StatusUnauthorized == 401
StatusInternalServerError == 500

\* CreateInitialUser: s.users.Count and the test of the count.
CreateInitialUserCount(p, username, password) ==
    /\ req[p].pc = "idle"
    /\ req' = [req EXCEPT ![p] =
            IF Len(users) > 0
            THEN [IdleReq EXCEPT !.op = "CreateInitialUser", !.pc = "done",
                                 !.username = username, !.ret = [err |-> "users already exist"]]
            ELSE [IdleReq EXCEPT !.op = "CreateInitialUser", !.pc = "create",
                                 !.username = username, !.value = password]]
    /\ UNCHANGED <<dstShift, now, weights, waterEvents, weightIDCounter, waterIDCounter>>
    /\ UNCHANGED authVars

\* CreateInitialUser: s.users.Create and the return (id is the id of the
\* user created, 0 if none).
CreateInitialUserCreate(p) ==
    /\ req[p].op = "CreateInitialUser" /\ req[p].pc = "create"
    /\ LET err == UserCreateErr(users, req[p].username)
       IN  IF err = "ok"
           THEN /\ userIDCounter' = userIDCounter + 1
                /\ users' = UserCreate(users, userIDCounter + 1, req[p].username, req[p].value)
                /\ req' = [req EXCEPT ![p].pc = "done", ![p].id = userIDCounter + 1,
                                      ![p].ret = [err |-> "ok"]]
           ELSE /\ req' = [req EXCEPT ![p].pc = "done", ![p].ret = [err |-> err]]
                /\ UNCHANGED <<users, userIDCounter>>
    /\ UNCHANGED <<dstShift, now, weights, waterEvents, weightIDCounter, waterIDCounter,
                   sessions, useMemory, tokens>>

\* Login: GetByUsername, the password check, generateToken and
\* s.sessions.Create with expiresAt 24 hours from now.
Login(p, username, password, userAgent) ==
    /\ req[p].pc = "idle"
    /\ LET user == GetByUsername(users, username)
       IN  IF user = Nil \/ user.PasswordHash # password
           THEN /\ req' = [req EXCEPT ![p] =
                        [IdleReq EXCEPT !.op = "Login", !.pc = "done", !.username = username,
                                        !.userAgent = userAgent,
                                        !.ret = [token |-> 0,
                                                 err |-> "invalid username or password"]]]
                /\ UNCHANGED <<sessions, tokens>>
           ELSE \E t \in Tokens \ tokens :
                /\ tokens' = tokens \cup {t}
                /\ sessions' = SessionCreate(sessions,
                                             Session(t, user.ID, userAgent, now + DayLen))
                /\ req' = [req EXCEPT ![p] =
                        [IdleReq EXCEPT !.op = "Login", !.pc = "done", !.username = username,
                                        !.userAgent = userAgent, !.token = t,
                                        !.ret = [token |-> t, err |-> "ok"]]]
    /\ UNCHANGED <<dstShift, now, weights, waterEvents, weightIDCounter, waterIDCounter,
                   users, userIDCounter, useMemory>>

\* Logout: s.sessions.Delete.
Logout(p, token) ==
    /\ req[p].pc = "idle"
    /\ sessions' = SessionDelete(sessions, token)
    /\ req' = [req EXCEPT ![p] =
            [IdleReq EXCEPT !.op = "Logout", !.pc = "done", !.token = token,
                            !.ret = [err |-> "ok"]]]
    /\ UNCHANGED <<dstShift, now, weights, waterEvents, weightIDCounter, waterIDCounter,
                   users, userIDCounter, useMemory, tokens>>

\* ValidateSession: s.sessions.GetByToken, which returns no error.  A nil
\* session makes session.ExpiresAt panic.
ValidateSessionGet(p, token, userAgent) ==
    /\ req[p].pc = "idle"
    /\ LET sn == GetByToken(useMemory, sessions, token, now)
       IN  req' = [req EXCEPT ![p] =
                [IdleReq EXCEPT !.op = "ValidateSession",
                                !.pc = IF sn = Nil THEN "panic" ELSE "check",
                                !.token = token, !.userAgent = userAgent, !.now = now,
                                !.stored = SessionOf(sessions, token),
                                !.session = sn]]
    /\ sessions' = GetByTokenStore(useMemory, sessions, token, now)
    /\ UNCHANGED <<dstShift, now, weights, waterEvents, weightIDCounter, waterIDCounter,
                   users, userIDCounter, useMemory, tokens>>

\* ValidateSession: s.sessions.GetByToken of the PostgreSQL adapter returns
\* an error.
ValidateSessionGetFail(p, token, userAgent) ==
    /\ req[p].pc = "idle"
    /\ ~useMemory
    /\ req' = [req EXCEPT ![p] =
            [IdleReq EXCEPT !.op = "ValidateSession", !.pc = "done", !.token = token,
                            !.userAgent = userAgent, !.now = now, !.failed = 1,
                            !.stored = SessionOf(sessions, token),
                            !.ret = [user |-> Nil, err |-> "session not found"]]]
    /\ UNCHANGED <<dstShift, now, weights, waterEvents, weightIDCounter, waterIDCounter>>
    /\ UNCHANGED authVars

\* ValidateSession from the expiry test on: Delete and ErrSessionExpired
\* for an expired or user-agent-mismatched session, else s.users.GetByID.
ValidateSessionCheck(p) ==
    /\ req[p].op = "ValidateSession" /\ req[p].pc = "check"
    /\ IF now > req[p].session.ExpiresAt \/ req[p].session.UserAgent # req[p].userAgent
       THEN /\ sessions' = SessionDelete(sessions, req[p].token)
            /\ req' = [req EXCEPT ![p].pc = "done",
                                  ![p].ret = [user |-> Nil, err |-> "session expired"]]
       ELSE /\ req' = [req EXCEPT ![p].pc = "done",
                                  ![p].ret = [user |-> GetByID(users, req[p].session.UserID),
                                              err |-> "ok"]]
            /\ UNCHANGED sessions
    /\ UNCHANGED <<dstShift, now, weights, waterEvents, weightIDCounter, waterIDCounter,
                   users, userIDCounter, useMemory, tokens>>

\* ValidateForwardAuth: s.users.GetByUsername returns no error, so the
\* branch that creates the user is not taken.
ValidateForwardAuth(p, remoteUser) ==
    /\ req[p].pc = "idle"
    /\ req' = [req EXCEPT ![p] =
            [IdleReq EXCEPT !.op = "ValidateForwardAuth", !.pc = "done",
                            !.username = remoteUser,
                            !.stored = GetByUsername(users, remoteUser),
                            !.ret = IF remoteUser = ""
                                    THEN [user |-> Nil, err |-> "no remote user header"]
                                    ELSE [user |-> GetByUsername(users, remoteUser),
                                          err |-> "ok"]]]
    /\ UNCHANGED <<dstShift, now, weights, waterEvents, weightIDCounter, waterIDCounter>>
    /\ UNCHANGED authVars

\* ValidateForwardAuth: s.users.GetByUsername of the PostgreSQL adapter
\* returns an error, and s.users.Create is called.
ValidateForwardAuthGetFail(p, remoteUser) ==
    /\ req[p].pc = "idle"
    /\ ~useMemory /\ remoteUser # ""
    /\ LET err == UserCreateErr(users, remoteUser)
       IN  IF err = "ok"
           THEN /\ userIDCounter' = userIDCounter + 1
                /\ users' = UserCreate(users, userIDCounter + 1, remoteUser, "")
                /\ req' = [req EXCEPT ![p] =
                        [IdleReq EXCEPT !.op = "ValidateForwardAuth", !.pc = "done",
                                        !.username = remoteUser, !.failed = 1,
                                        !.id = userIDCounter + 1,
                                        !.ret = [user |-> User(userIDCounter + 1, remoteUser, ""),
                                                 err |-> "ok"]]]
           ELSE /\ req' = [req EXCEPT ![p] =
                        [IdleReq EXCEPT !.op = "ValidateForwardAuth", !.pc = "done",
                                        !.username = remoteUser, !.failed = 1,
                                        !.ret = [user |-> Nil, err |-> err]]]
                /\ UNCHANGED <<users, userIDCounter>>
    /\ UNCHANGED <<dstShift, now, weights, waterEvents, weightIDCounter, waterIDCounter,
                   sessions, useMemory, tokens>>

\* authMiddleware after ValidateSession (the request carries a session
\* cookie and no Remote-User header): StatusUnauthorized for
\* ErrSessionNotFound and ErrSessionExpired, StatusInternalServerError for
\* another error, else next.ServeHTTP (StatusOK).
authMiddleware(p) ==
    /\ req[p].op = "ValidateSession" /\ req[p].pc = "done" /\ req[p].status = 0
    /\ req' = [req EXCEPT ![p].status =
                    IF req[p].ret.err \in {"session not found", "session expired"}
                    THEN StatusUnauthorized
                    ELSE IF req[p].ret.err # "ok" THEN StatusInternalServerError
                    ELSE StatusOK]
    /\ UNCHANGED <<dstShift, now, weights, waterEvents, weightIDCounter, waterIDCounter>>
    /\ UNCHANGED authVars

\* authMiddleware after ValidateForwardAuth (the request carries a
\* Remote-User header and no session cookie): next.ServeHTTP (StatusOK)
\* with the user when there is no error and the user is not nil, else
\* StatusUnauthorized for the missing cookie.
authMiddlewareForward(p) ==
    /\ req[p].op = "ValidateForwardAuth" /\ req[p].pc = "done" /\ req[p].status = 0
    /\ req' = [req EXCEPT ![p].status =
                    IF req[p].ret.err = "ok" /\ req[p].ret.user # Nil
                    THEN StatusOK ELSE StatusUnauthorized]
    /\ UNCHANGED <<dstShift, now, weights, waterEvents, weightIDCounter, waterIDCounter>>
    /\ UNCHANGED authVars

\* net/http recovers the panic of a request goroutine and closes the
\* connection.
Recover(p) ==
    /\ req[p].pc = "panic"
    /\ req' = [req EXCEPT ![p] = IdleReq]
    /\ UNCHANGED <<dstShift, now, weights, waterEvents, weightIDCounter, waterIDCounter>>
    /\ UNCHANGED authVars

----------------------------------------------------------------------------
(* The HTTP handlers of PUT /api/weight/today and GET /api/charts/daily,   *)
(* from the return of the service call on: the status they write.          *)

\* strconv.Atoi of the query values of the model.
Atoi(v) ==
    CASE v = "0" -> [n |-> 0, err |-> "ok"]
      [] v = "2" -> [n |-> 2, err |-> "ok"]
      [] v = "-3" -> [n |-> 0 - 3, err |-> "ok"]
      [] v = "400" -> [n |-> 400, err |-> "ok"]
      [] OTHER -> [n |-> 0, err |-> "invalid syntax"]

\* intQuery(r, key, fallback), v the value of the parameter ("" if missing).
intQuery(v, fallback) ==
    IF v = "" THEN fallback
    ELSE IF Atoi(v).err # "ok" \/ Atoi(v).n <= 0 THEN fallback
    ELSE Atoi(v).n

\* The values of the days parameter of a request.
DaysQueries == {"", "abc", "0", "-3", "2", "400"}

\* The fallback of days in handleChartsDaily.
DefaultDays == 90

\* handleWeightToday up to the method switch: today := localDayString(time.Now()).
handleWeightTodayEnter(p) ==
    /\ req[p].pc = "idle" /\ req[p].handler = ""
    /\ req' = [req EXCEPT ![p].handler = "handleWeightToday",
                          ![p].hToday = <<localDayString(now)>>]
    /\ UNCHANGED <<dstShift, now, weights, waterEvents, weightIDCounter, waterIDCounter>>
    /\ UNCHANGED authVars

\* handleWeightToday, case http.MethodPut: the call of s.weight.RecordWeight.
handleWeightTodayPut(p, userID, value, unit) ==
    /\ req[p].handler = "handleWeightToday"
    /\ RecordWeightBegin(p, userID, value, unit)

\* handleChartsDaily up to the call of GetDaily: days and unit of the query.
handleChartsDailyEnter(p, daysQuery, unitQuery) ==
    /\ req[p].pc = "idle" /\ req[p].handler = ""
    /\ req' = [req EXCEPT ![p].handler = "handleChartsDaily",
                          ![p].days = intQuery(daysQuery, DefaultDays),
                          ![p].unit = IF unitQuery = "" THEN "lb" ELSE unitQuery]
    /\ UNCHANGED <<dstShift, now, weights, waterEvents, weightIDCounter, waterIDCounter>>
    /\ UNCHANGED authVars

\* handleChartsDaily: the call of s.charts.GetDaily.
handleChartsDailyGet(p, userID) ==
    /\ req[p].handler = "handleChartsDaily"
    /\ GetDaily(p, userID, req[p].days, req[p].unit)

\* handleWeightToday, case http.MethodPut, after s.weight.RecordWeight.
handleWeightToday(p) ==
    /\ req[p].op = "RecordWeight" /\ req[p].pc = "done" /\ req[p].status = 0
    /\ req' = [req EXCEPT ![p].status =
                    IF req[p].ret.err # "ok" THEN StatusBadRequest ELSE StatusOK]
    /\ UNCHANGED <<dstShift, now, weights, waterEvents, weightIDCounter, waterIDCounter>>
    /\ UNCHANGED authVars

\* handleChartsDaily, after s.charts.GetDaily.
handleChartsDaily(p) ==
    /\ req[p].op = "GetDaily" /\ req[p].pc = "done" /\ req[p].status = 0
    /\ req' = [req EXCEPT ![p].status =
                    IF req[p].ret.err # "ok" THEN StatusBadRequest ELSE StatusOK,
                          ![p].hToday =
                    IF req[p].ret.err # "ok" THEN NoDay ELSE <<localDayString(now)>>]
    /\ UNCHANGED <<dstShift, now, weights, waterEvents, weightIDCounter, waterIDCounter>>
    /\ UNCHANGED authVars

----------------------------------------------------------------------------
(* Specifications *)

Init ==
    /\ dstShift \in Shifts
    /\ now = StartTime
    /\ weights = <<>>
    /\ waterEvents = <<>>
    /\ weightIDCounter = 0
    /\ waterIDCounter = 0
    /\ req = [p \in Procs |-> IdleReq]
    /\ users = <<>>
    /\ sessions = {}
    /\ userIDCounter = 0
    /\ useMemory = TRUE
    /\ tokens = {}

\* The same with the clock at ChartStartTime.
InitCharts ==
    /\ dstShift \in Shifts
    /\ now = ChartStartTime
    /\ weights = <<>>
    /\ waterEvents = <<>>
    /\ weightIDCounter = 0
    /\ waterIDCounter = 0
    /\ req = [p \in Procs |-> IdleReq]
    /\ users = <<>>
    /\ sessions = {}
    /\ userIDCounter = 0
    /\ useMemory = TRUE
    /\ tokens = {}

WeightStep(p) ==
    \/ \E u \in Users, v \in ValueInputs, un \in UnitInputs : RecordWeightBegin(p, u, v, un)
    \/ RecordWeightAdd(p)
    \/ RecordWeightReread(p)
    \/ \E u \in Users : WeightUndoLastBegin(p, u)
    \/ WeightUndoLastDelete(p)
    \/ WeightUndoLastReread(p)
    \/ \E u \in Users, d \in DayInputs : GetTodayWeight(p, u, d)
    \/ \E u \in Users, l \in LimitInputs : WeightListRecent(p, u, l)

WaterStep(p) ==
    \/ \E u \in Users, d \in DeltaInputs : RecordEventBegin(p, u, d)
    \/ RecordEventAdd(p)
    \/ \E u \in Users : WaterUndoLastList(p, u)
    \/ WaterUndoLastDelete(p)
    \/ \E u \in Users, d \in DayInputs : GetTodayTotal(p, u, d)
    \/ \E u \in Users, l \in LimitInputs : WaterListRecent(p, u, l)

\* The weight service, one request at a time, under a wall clock that may
\* be set back.  A request reads the clock in its first step only, so the
\* clock moves between requests.
NextWeight ==
    \/ Quiet /\ Tick(MaxTime)
    \/ Quiet /\ ClockBack
    \/ WeightStep("g1")
    \/ Return("g1")

SpecWeight == Init /\ [][NextWeight]_vars

\* The water service, one request at a time, under a wall clock that may
\* be set back.
NextWater ==
    \/ Quiet /\ Tick(MaxTime)
    \/ Quiet /\ ClockBack
    \/ WaterStep("g1")
    \/ Return("g1")

SpecWater == Init /\ [][NextWater]_vars

\* The three services, one request at a time, on a log of at most
\* MaxChartEvents events, under a clock that advances from ChartStartTime.
NextCharts ==
    \/ Quiet /\ Tick(MaxChartTime)
    \/ /\ Len(weights) + Len(waterEvents) < MaxChartEvents
       /\ \/ \E u \in Users, un \in {"kg", "lb"} : RecordWeightBegin("g1", u, Real(80), un)
          \/ \E u \in Users, d \in {0 - 10, 10} : RecordEventBegin("g1", u, d)
    \/ RecordWeightAdd("g1")
    \/ RecordWeightReread("g1")
    \/ RecordEventAdd("g1")
    \/ \E in \in ChartInputs : GetDaily("g1", 1, in[1], in[2])
    \/ Return("g1")

SpecCharts == InitCharts /\ [][NextCharts]_vars

\* Concurrent RecordWeight requests under a clock that advances.
NextWeightRace ==
    \/ Tick(MaxTime)
    \/ \E p \in Procs :
        \/ \E u \in Users : RecordWeightBegin(p, u, Real(80), "kg")
        \/ RecordWeightAdd(p)
        \/ RecordWeightReread(p)
        \/ Return(p)

SpecWeightRace == Init /\ [][NextWeightRace]_vars

\* Concurrent RecordEvent and water UndoLast requests under a clock that
\* advances.
NextWaterRace ==
    \/ Tick(MaxTime)
    \/ \E p \in Procs :
        \/ \E u \in Users : RecordEventBegin(p, u, 10)
        \/ RecordEventAdd(p)
        \/ \E u \in Users : WaterUndoLastList(p, u)
        \/ WaterUndoLastDelete(p)
        \/ Return(p)

SpecWaterRace == Init /\ [][NextWaterRace]_vars

\* The weight, water and charts services on one log, at most MaxLogEvents
\* events appended, one request at a time, under a wall clock that may be set back
\* between two requests.
NextLog ==
    \/ Idle /\ Tick(MaxLogTime)
    \/ Idle /\ ClockBack
    \/ /\ weightIDCounter + waterIDCounter < MaxLogEvents
       /\ \/ \E u \in Users : RecordWeightBegin("g1", u, Real(80), "kg")
          \/ \E u \in Users : RecordEventBegin("g1", u, 10)
    \/ RecordWeightAdd("g1")
    \/ RecordWeightReread("g1")
    \/ RecordEventAdd("g1")
    \/ \E u \in Users : WeightUndoLastBegin("g1", u)
    \/ WeightUndoLastDelete("g1")
    \/ WeightUndoLastReread("g1")
    \/ \E u \in Users : WaterUndoLastList("g1", u)
    \/ WaterUndoLastDelete("g1")
    \/ \E u \in Users, l \in LimitInputs : WeightListRecent("g1", u, l)
    \/ \E u \in Users, l \in LimitInputs : WaterListRecent("g1", u, l)
    \/ \E u \in Users : GetTodayWeight("g1", u, localDayString(now))
    \/ \E u \in Users : GetTodayTotal("g1", u, localDayString(now))
    \/ \E u \in Users : GetDaily("g1", u, 2, "kg")
    \/ Return("g1")

SpecLog == Init /\ [][NextLog]_vars

\* (days, unit) of the GetDaily requests over a repository that may fail.
FaultyChartInputs ==
    ({1, 3} \X {"kg"}) \cup ({0, 3, MaxDays + 1} \X {"stones"})

\* The steps of one request of user 1 over a repository that may fail.
FaultyStep(p) ==
    \/ /\ weightIDCounter + waterIDCounter < MaxFaultyEvents
       /\ \/ RecordWeightBegin(p, 1, Real(80), "kg")
          \/ RecordEventBegin(p, 1, 10)
    \/ \E v \in {Real(0), Real(80)} : RecordWeightBegin(p, 1, v, "stones")
    \/ RecordWeightBegin(p, 1, Real(0), "kg")
    \/ RecordEventBegin(p, 1, 11)
    \/ RecordWeightAdd(p)
    \/ RecordWeightAddFail(p)
    \/ RecordWeightReread(p)
    \/ RecordWeightRereadFail(p)
    \/ RecordEventAdd(p)
    \/ RecordEventAddFail(p)
    \/ WeightUndoLastBegin(p, 1)
    \/ WeightUndoLastDelete(p)
    \/ WeightUndoLastDeleteFail(p)
    \/ WeightUndoLastReread(p)
    \/ WeightUndoLastRereadFail(p)
    \/ WaterUndoLastList(p, 1)
    \/ WaterUndoLastListFail(p, 1)
    \/ WaterUndoLastDelete(p)
    \/ WaterUndoLastDeleteFail(p)
    \/ WeightListRecent(p, 1, 1)
    \/ WeightListRecentFail(p, 1, 1)
    \/ WaterListRecent(p, 1, 1)
    \/ WaterListRecentFail(p, 1, 1)
    \/ GetTodayWeight(p, 1, localDayString(now))
    \/ GetTodayWeightFail(p, 1, localDayString(now))
    \/ GetTodayTotal(p, 1, localDayString(now))
    \/ GetTodayTotalFail(p, 1, localDayString(now))
    \/ \E in \in FaultyChartInputs : GetDaily(p, 1, in[1], in[2])
    \/ \E in \in FaultyChartInputs, k \in 1..6 : GetDailyFail(p, 1, in[1], in[2], k)
    \/ handleWeightToday(p)
    \/ handleChartsDaily(p)
    \/ Return(p)

NextFaulty ==
    \/ FaultyStep("g1")
    \/ FaultyStep("g2")

SpecFaulty == Init /\ [][NextFaulty]_vars

\* The handlers of PUT /api/weight/today and GET /api/charts/daily, and
\* GetDaily called by another caller, under a clock that advances.
NextHandlers ==
    \/ Tick(MaxHandlerTime)
    \/ handleWeightTodayEnter("g1")
    \/ \E un \in {"kg", "stones"} : handleWeightTodayPut("g1", 1, Real(80), un)
    \/ RecordWeightAdd("g1")
    \/ RecordWeightReread("g1")
    \/ handleWeightToday("g1")
    \/ \E q \in DaysQueries, un \in {"", "kg", "stones"} : handleChartsDailyEnter("g1", q, un)
    \/ handleChartsDailyGet("g1", 1)
    \/ /\ req["g1"].handler = ""
       /\ \E d \in {0 - 2, 0, 1}, un \in {"kg", "stones"} : GetDaily("g1", 1, d, un)
    \/ handleChartsDaily("g1")
    \/ Recover("g1")
    \/ req["g1"].status # 0 /\ Return("g1")
    \/ req["g1"].handler = "" /\ Return("g1")

SpecHandlers == Init /\ [][NextHandlers]_vars

\* The unit strings ConvertWeight is called with.
ConvertUnits == {"kg", "lb", "stones", ""}

\* A call of domain.ConvertWeight(v, from, to) and its result.
ConvertCall(p, v, from, to) ==
    /\ req[p].pc = "idle"
    /\ req' = [req EXCEPT ![p] =
            [IdleReq EXCEPT !.op = "ConvertWeight", !.pc = "done", !.value = v, !.unit = from,
                            !.ret = [to |-> to, out |-> ConvertWeight(v, from, to)]]]
    /\ UNCHANGED <<dstShift, now, weights, waterEvents, weightIDCounter, waterIDCounter>>
    /\ UNCHANGED authVars

NextConvert ==
    \/ \E p \in Procs, v \in ValueInputs, from \in ConvertUnits, to \in ConvertUnits :
            ConvertCall(p, v, from, to)
    \/ \E p \in Procs : Return(p)

SpecConvert == Init /\ [][NextConvert]_vars

\* main: the repositories are the in-memory ones or the PostgreSQL ones.
InitAuth ==
    /\ dstShift = 0
    /\ now = StartTime
    /\ weights = <<>>
    /\ waterEvents = <<>>
    /\ weightIDCounter = 0
    /\ waterIDCounter = 0
    /\ req = [p \in Procs |-> IdleReq]
    /\ users = <<>>
    /\ sessions = {}
    /\ userIDCounter = 0
    /\ useMemory \in BOOLEAN
    /\ tokens = {}

\* The first user is created, logs in and out and has sessions validated,
\* one request at a time; the clock advances between the requests and
\* between the two steps of ValidateSession.
NextSession ==
    \/ (req["g1"].pc \in {"idle", "check"}) /\ Tick(MaxAuthTime)
    \/ CreateInitialUserCount("g1", "alice", "pw")
    \/ CreateInitialUserCreate("g1")
    \/ \E ua \in UserAgents : Login("g1", "alice", "pw", ua)
    \/ \E t \in Tokens : Logout("g1", t)
    \/ \E t \in Tokens, ua \in UserAgents : ValidateSessionGet("g1", t, ua)
    \/ \E t \in Tokens : ValidateSessionGetFail("g1", t, "ua1")
    \/ ValidateSessionCheck("g1")
    \/ authMiddleware("g1")
    \/ Recover("g1")
    \/ Return("g1")

SpecSession == InitAuth /\ [][NextSession]_vars

\* The steps of a request that creates or looks up a user.
UserStep(p) ==
    \/ \E u \in Usernames : CreateInitialUserCount(p, u, "pw")
    \/ CreateInitialUserCreate(p)
    \/ \E u \in Usernames \cup {""} : ValidateForwardAuth(p, u)
    \/ \E u \in Usernames : ValidateForwardAuthGetFail(p, u)
    \/ authMiddlewareForward(p)
    \/ Return(p)

NextUsers ==
    \/ UserStep("g1")
    \/ UserStep("g2")

SpecUsers == InitAuth /\ [][NextUsers]_vars

----------------------------------------------------------------------------
(* Properties.  The day interval of a claim is [DayStart(D), DayStart(D) +  *)
(* DayLen); the sets below are stated over the slices, not computed by the *)
(* repository loops.                                                       *)

\* Indices of the user's weight events inside the interval of day D.
WeightsInDay(u, D) ==
    {i \in 1..Len(weights) :
        /\ weights[i].UserID = u
        /\ DayStart(D) <= weights[i].CreatedAt
        /\ weights[i].CreatedAt < DayStart(D) + DayLen}

\* entry is what latestWeightForDay(u, D) is claimed to return.
IsLatestForDay(entry, u, D) ==
    IF WeightsInDay(u, D) = {} THEN entry = Nil
    ELSE /\ entry # Nil
         /\ \E i \in WeightsInDay(u, D) :
                /\ entry = [weights[i] EXCEPT !.Day = <<D>>]
                /\ \A j \in WeightsInDay(u, D) : weights[j].CreatedAt <= weights[i].CreatedAt

\* Indices of the user's weight events, over all days.
UserWeights(u) == {i \in 1..Len(weights) : weights[i].UserID = u}

\* C1: for every user, day D and log, GetTodayWeight(user, D), which is
\* LatestWeightForLocalDay(user, D), returns no error and an event of the user
\* with the maximum CreatedAt among those in D's interval, whatever the order
\* of the slice, Nil when there is none, labelled with D.
C1_LatestWeightForDay ==
    \A p \in Procs :
        (req[p].op = "GetTodayWeight" /\ req[p].pc = "done")
            => /\ req[p].ret.err = "ok"
               /\ IsLatestForDay(req[p].ret.entry, req[p].userID, Head(req[p].today))

\* C1 witness: the later of two events of the day was appended first, and the
\* entry returned for day D has a CreatedAt whose own local day is not D.
C1_Witness ==
    /\ req["g1"].op = "GetTodayWeight" /\ req["g1"].pc = "done"
    /\ Len(weights) = 2
    /\ WeightsInDay(req["g1"].userID, Head(req["g1"].today)) = {1, 2}
    /\ weights[1].CreatedAt > weights[2].CreatedAt
    /\ req["g1"].ret.entry # Nil
    /\ req["g1"].ret.entry.ID = weights[1].ID
    /\ req["g1"].ret.entry.Day = req["g1"].today
    /\ localDayString(req["g1"].ret.entry.CreatedAt) # Head(req["g1"].today)

\* C10: a RecordWeight request with value <= 0 or a unit other than kg and lb
\* ends with an error without having reached AddWeightEvent, a valid one does
\* not end with an error, and no stored event has such a value or unit.
C10_RecordWeightValidation ==
    /\ \A p \in Procs :
        req[p].op = "RecordWeight" =>
            IF req[p].value.num <= 0 \/ req[p].unit \notin {"kg", "lb"}
            THEN /\ req[p].pc = "done"
                 /\ req[p].ret.err # "ok"
                 /\ req[p].ret.entry = Nil
                 /\ req[p].id = 0
            ELSE req[p].pc = "done" => req[p].ret.err = "ok"
    /\ \A i \in 1..Len(weights) :
            weights[i].Value.num > 0 /\ weights[i].Unit \in {"kg", "lb"}

\* C10 witness: RecordWeight(user, 0, "kg") has failed on a log that holds
\* events.
C10_Witness ==
    /\ req["g1"].op = "RecordWeight" /\ req["g1"].pc = "done"
    /\ req["g1"].value = Real(0) /\ req["g1"].unit = "kg"
    /\ req["g1"].ret.err # "ok"
    /\ Len(weights) = 2

\* C6: the DeleteLatestWeightEvent call of UndoLast, for a user with events,
\* removes exactly one event, one of the user's with the maximum CreatedAt
\* over all days, and reports deleted; UndoLast returns that flag with the
\* latest entry of today's interval in the slice after the deletion.
C6_WeightUndoLast ==
    [][\A p \in Procs :
        /\ (req[p].op = "WeightUndoLast" /\ req[p].pc = "delete" /\ req'[p].pc = "reread"
              /\ UserWeights(req[p].userID) # {})
            => /\ req'[p].deleted = TRUE
               /\ \E k \in UserWeights(req[p].userID) :
                    /\ \A j \in UserWeights(req[p].userID) :
                            weights[j].CreatedAt <= weights[k].CreatedAt
                    /\ weights' = RemoveAt(weights, k)
        /\ (req[p].op = "WeightUndoLast" /\ req[p].pc = "reread" /\ req'[p].pc = "done")
            => /\ req'[p].ret.deleted = req[p].deleted
               /\ req'[p].ret.err = "ok"
               /\ req'[p].ret.today = <<localDayString(req[p].now)>>
               /\ weights' = weights
               /\ IsLatestForDay(req'[p].ret.entry, req[p].userID, localDayString(req[p].now))
      ]_vars

\* C6 witness: UndoLast returned deleted with today's latest entry after it
\* removed the event appended first, which was not the last one appended.
C6_Witness ==
    /\ req["g1"].op = "WeightUndoLast" /\ req["g1"].pc = "done"
    /\ req["g1"].ret.deleted
    /\ weightIDCounter = 2 /\ Len(weights) = 1
    /\ weights[1].ID = 2 /\ weights[1].UserID = req["g1"].userID
    /\ req["g1"].ret.entry # Nil /\ req["g1"].ret.entry.ID = 2

\* Indices of the user's water events inside the interval of day D.
WatersInDay(u, D) ==
    {i \in 1..Len(waterEvents) :
        /\ waterEvents[i].UserID = u
        /\ DayStart(D) <= waterEvents[i].CreatedAt
        /\ waterEvents[i].CreatedAt < DayStart(D) + DayLen}

\* The sum of DeltaLiters over the water events at the indices S.
RECURSIVE SumDelta(_)
SumDelta(S) ==
    IF S = {} THEN 0
    ELSE LET i == CHOOSE x \in S : TRUE
         IN  waterEvents[i].DeltaLiters + SumDelta(S \ {i})

\* Indices of the user's water events, over all days.
UserWaters(u) == {i \in 1..Len(waterEvents) : waterEvents[i].UserID = u}

\* C2: for every user, day D and log, GetTodayTotal(user, D), which is
\* WaterTotalForLocalDay(user, D), returns no error and the signed sum of
\* DeltaLiters over exactly the user's events in D's interval, 0 when there is
\* none.
C2_TotalForDay ==
    \A p \in Procs :
        (req[p].op = "GetTodayTotal" /\ req[p].pc = "done")
            => /\ req[p].ret.err = "ok"
               /\ req[p].ret.total = SumDelta(WatersInDay(req[p].userID, Head(req[p].today)))

\* C2 witness: the total returned for a day is a decrement of the user alone,
\* while an increment of another user lies in the same day.
C2_Witness ==
    /\ req["g1"].op = "GetTodayTotal" /\ req["g1"].pc = "done"
    /\ Len(waterEvents) = 2
    /\ \E i, j \in 1..2 :
        /\ WatersInDay(req["g1"].userID, Head(req["g1"].today)) = {i}
        /\ waterEvents[i].DeltaLiters < 0
        /\ waterEvents[j].UserID # req["g1"].userID
        /\ waterEvents[j].DeltaLiters > 0
        /\ DayStart(Head(req["g1"].today)) <= waterEvents[j].CreatedAt
        /\ waterEvents[j].CreatedAt < DayStart(Head(req["g1"].today)) + DayLen
        /\ req["g1"].ret.total = waterEvents[i].DeltaLiters

\* C3: in both aggregators an event whose CreatedAt is DayStart(D) counts for
\* day D of its user and an event whose CreatedAt is DayStart(D) + DayLen
\* does not: the result for D with the first is never Nil (its DeltaLiters
\* is in the total), and the result for D is the same with and without the
\* second.
C3_HalfOpenDay ==
    \A D \in DayInputs :
        /\ \A i \in 1..Len(weights) :
            LET u == weights[i].UserID
            IN  /\ weights[i].CreatedAt = DayStart(D)
                    => /\ LatestWeightForLocalDay(weights, u, D) # Nil
                       /\ LatestWeightForLocalDay(<<weights[i]>>, u, D)
                            = [weights[i] EXCEPT !.Day = <<D>>]
                /\ weights[i].CreatedAt = DayStart(D) + DayLen
                    => /\ LatestWeightForLocalDay(weights, u, D)
                            = LatestWeightForLocalDay(RemoveAt(weights, i), u, D)
                       /\ LatestWeightForLocalDay(<<weights[i]>>, u, D) = Nil
        /\ \A i \in 1..Len(waterEvents) :
            LET u == waterEvents[i].UserID
            IN  /\ waterEvents[i].CreatedAt = DayStart(D)
                    => WaterTotalForLocalDay(waterEvents, u, D)
                        = WaterTotalForLocalDay(RemoveAt(waterEvents, i), u, D)
                            + waterEvents[i].DeltaLiters
                /\ waterEvents[i].CreatedAt = DayStart(D) + DayLen
                    => WaterTotalForLocalDay(waterEvents, u, D)
                        = WaterTotalForLocalDay(RemoveAt(waterEvents, i), u, D)

\* C3 witness: a weight event and a water event of one user lie exactly on the
\* instant that ends day D and starts day D + 1, and the series returned by
\* GetDaily shows them in the point of day D + 1 and not in the point of day D.
C3_Witness ==
    /\ req["g1"].op = "GetDaily" /\ req["g1"].pc = "done" /\ req["g1"].ret.err = "ok"
    /\ Len(weights) = 1 /\ Len(waterEvents) = 1
    /\ weights[1].UserID = req["g1"].userID /\ waterEvents[1].UserID = req["g1"].userID
    /\ Len(req["g1"].ret.points) = 2
    /\ LET D == req["g1"].ret.points[1].Day
       IN  /\ req["g1"].ret.points[2].Day = D + 1
           /\ weights[1].CreatedAt = DayStart(D) + DayLen
           /\ weights[1].CreatedAt = DayStart(D + 1)
           /\ waterEvents[1].CreatedAt = DayStart(D) + DayLen
           /\ waterEvents[1].CreatedAt = DayStart(D + 1)
           /\ req["g1"].ret.points[1].Weight = Nil
           /\ req["g1"].ret.points[1].WaterLiters = 0
           /\ req["g1"].ret.points[2].Weight # Nil
           /\ req["g1"].ret.points[2].WaterLiters = waterEvents[1].DeltaLiters

\* C4: GetDaily with days >= 1 and unit kg or lb returns no error and exactly
\* min(days, 366) points whatever the log holds, no point has a day earlier
\* than the point before it, and the day of the last point is the local day
\* of the instant of the call.
C4_DailySeriesLength ==
    \A p \in Procs :
        (req[p].op = "GetDaily" /\ req[p].pc = "done"
            /\ req[p].days >= 1 /\ req[p].unit \in {"kg", "lb"})
        => /\ req[p].ret.err = "ok"
           /\ Len(req[p].ret.points) = (IF req[p].days > 366 THEN 366 ELSE req[p].days)
           /\ \A k \in 1..(Len(req[p].ret.points) - 1) :
                req[p].ret.points[k].Day <= req[p].ret.points[k + 1].Day
           /\ req[p].ret.points[Len(req[p].ret.points)].Day = localDayString(req[p].now)

\* C4 witness: a request for 367 days on a log that holds events is answered
\* with 366 points and no error.
C4_Witness ==
    /\ req["g1"].op = "GetDaily" /\ req["g1"].pc = "done"
    /\ req["g1"].days = 367
    /\ req["g1"].ret.err = "ok"
    /\ Len(req["g1"].ret.points) = 366
    /\ Len(weights) = 1 /\ Len(waterEvents) = 1

\* C5: in the n points returned by GetDaily the k-th point (from 1) has the
\* day today - (n - k), its WaterLiters is the total of that day and its
\* Weight is absent exactly when the user has no weight event in that day.
C5_DailySeriesDays ==
    \A p \in Procs :
        (req[p].op = "GetDaily" /\ req[p].pc = "done" /\ req[p].ret.err = "ok")
        => LET pts == req[p].ret.points
               n == Len(pts)
               today == localDayString(req[p].now)
           IN  \A k \in 1..n :
                /\ pts[k].Day = today - (n - k)
                /\ pts[k].WaterLiters = SumDelta(WatersInDay(req[p].userID, pts[k].Day))
                /\ (pts[k].Weight = Nil) <=> (WeightsInDay(req[p].userID, pts[k].Day) = {})

\* C7: without a concurrent request, the read of water UndoLast returns one
\* event of the user with the maximum CreatedAt over all days (nothing and
\* (false, 0) for a user without events), and its delete removes exactly one
\* event, one of the user's with the maximum CreatedAt, keeps every other
\* event, and returns (true, id of the removed event).
C7_WaterUndoLast ==
    [][\A p \in Procs :
        /\ (req[p].pc = "idle" /\ req'[p].op = "WaterUndoLast")
            => /\ waterEvents' = waterEvents
               /\ IF UserWaters(req'[p].userID) = {}
                  THEN /\ req'[p].pc = "done"
                       /\ req'[p].ret = [undone |-> FALSE, id |-> 0, err |-> "ok"]
                  ELSE /\ req'[p].pc = "delete"
                       /\ Len(req'[p].items) = 1
                       /\ \E k \in UserWaters(req'[p].userID) :
                            /\ req'[p].items[1] = waterEvents[k]
                            /\ \A j \in UserWaters(req'[p].userID) :
                                    waterEvents[j].CreatedAt <= waterEvents[k].CreatedAt
        /\ (req[p].op = "WaterUndoLast" /\ req[p].pc = "delete" /\ req'[p].pc = "done")
            => \E k \in UserWaters(req[p].userID) :
                    /\ \A j \in UserWaters(req[p].userID) :
                            waterEvents[j].CreatedAt <= waterEvents[k].CreatedAt
                    /\ waterEvents[k] = req[p].items[1]
                    /\ waterEvents' = RemoveAt(waterEvents, k)
                    /\ req'[p].ret = [undone |-> TRUE, id |-> waterEvents[k].ID, err |-> "ok"]
      ]_vars

\* C7 witness: UndoLast returned (true, 1) after it removed the event appended
\* first, whose CreatedAt was later than that of the event appended after it,
\* which is still in the log.
C7_Witness ==
    /\ req["g1"].op = "WaterUndoLast" /\ req["g1"].pc = "done"
    /\ req["g1"].ret = [undone |-> TRUE, id |-> 1, err |-> "ok"]
    /\ req["g1"].removed # <<>>
    /\ req["g1"].removed[1].event.ID = 1
    /\ Len(waterEvents) = 1
    /\ waterEvents[1].ID = 2
    /\ waterEvents[1].UserID = req["g1"].userID
    /\ waterEvents[1].CreatedAt < req["g1"].removed[1].event.CreatedAt

\* C8: water UndoLast is a read followed by a delete by id: the read returns
\* an event of the user with the maximum CreatedAt at the time of the read;
\* the delete removes the event with the id read when it is still in the log
\* and nothing otherwise, whatever was appended or removed since the read,
\* and returns (true, id) in both cases.
C8_WaterUndoReadThenDelete ==
    [][\A p \in Procs :
        /\ (req[p].pc = "idle" /\ req'[p].op = "WaterUndoLast" /\ req'[p].pc = "delete")
            => \E k \in UserWaters(req'[p].userID) :
                    /\ req'[p].items = <<waterEvents[k]>>
                    /\ \A j \in UserWaters(req'[p].userID) :
                            waterEvents[j].CreatedAt <= waterEvents[k].CreatedAt
        /\ (req[p].op = "WaterUndoLast" /\ req[p].pc = "delete" /\ req'[p].pc = "done")
            => LET id == req[p].items[1].ID
                   present == {k \in UserWaters(req[p].userID) : waterEvents[k].ID = id}
               IN  /\ req'[p].ret = [undone |-> TRUE, id |-> id, err |-> "ok"]
                   /\ IF present = {} THEN waterEvents' = waterEvents
                      ELSE \E k \in present : waterEvents' = RemoveAt(waterEvents, k)
      ]_vars

\* C8 witness: an UndoLast has removed an event while a later event of the
\* same user, appended after its read, was in the log.
C8_Witness ==
    \E p \in Procs :
        /\ req[p].op = "WaterUndoLast" /\ req[p].pc = "done"
        /\ req[p].ret.undone
        /\ req[p].removed # <<>>
        /\ req[p].removed[1].stale
        /\ \E i \in UserWaters(req[p].userID) :
                /\ waterEvents[i].CreatedAt > req[p].removed[1].event.CreatedAt
                /\ waterEvents[i].ID > req[p].removed[1].event.ID

\* The index in the slice of the weight event inserted by the request of p.
OwnIdx(p) == CHOOSE i \in 1..Len(weights) : weights[i].ID = req[p].id

C11_RecordEventValidation ==
    /\ \A p \in Procs :
        req[p].op = "RecordEvent" =>
            IF req[p].deltaLiters = 0 \/ req[p].deltaLiters < 0 - 10 \/ req[p].deltaLiters > 10
            THEN /\ req[p].pc = "done"
                 /\ req[p].ret.err # "ok"
                 /\ req[p].ret.id = 0
                 /\ req[p].id = 0
            ELSE req[p].pc = "done" => (req[p].ret.err = "ok" /\ req[p].ret.id = req[p].id)
    /\ \A i \in 1..Len(waterEvents) :
            /\ waterEvents[i].DeltaLiters # 0
            /\ waterEvents[i].DeltaLiters >= 0 - 10
            /\ waterEvents[i].DeltaLiters <= 10

\* C11 witness: RecordEvent(user, 11) has failed on a log that holds the
\* accepted events of -10 and of 10.
C11_Witness ==
    /\ req["g1"].op = "RecordEvent" /\ req["g1"].pc = "done"
    /\ req["g1"].deltaLiters = 11
    /\ req["g1"].ret.err # "ok"
    /\ Len(waterEvents) = 2
    /\ waterEvents[1].DeltaLiters = 0 - 10
    /\ waterEvents[2].DeltaLiters = 10

\* C12: UndoLast for a user without events of the kind changes nothing and
\* is no error: the delete of weight UndoLast leaves the slice as it is and
\* reports deleted = false, weight UndoLast then returns (false, Nil) with no
\* error, and water UndoLast returns (false, 0) with no error and the slice as
\* it is; so a repetition starts from the same log and returns the same.
C12_UndoLastEmpty ==
    [][\A p \in Procs :
        /\ (req[p].op = "WeightUndoLast" /\ req[p].pc = "delete" /\ req'[p].pc = "reread"
              /\ UserWeights(req[p].userID) = {})
            => /\ weights' = weights /\ waterEvents' = waterEvents
               /\ req'[p].deleted = FALSE
        /\ (req[p].op = "WeightUndoLast" /\ req[p].pc = "reread" /\ req'[p].pc = "done"
              /\ req[p].deleted = FALSE)
            => /\ weights' = weights /\ waterEvents' = waterEvents
               /\ UserWeights(req[p].userID) = {}
               /\ req'[p].ret.deleted = FALSE
               /\ req'[p].ret.entry = Nil
               /\ req'[p].ret.err = "ok"
        /\ (req[p].pc = "idle" /\ req'[p].op = "WaterUndoLast"
              /\ UserWaters(req'[p].userID) = {})
            => /\ weights' = weights /\ waterEvents' = waterEvents
               /\ req'[p].pc = "done"
               /\ req'[p].ret = [undone |-> FALSE, id |-> 0, err |-> "ok"]
      ]_vars

\* C12 witness: weight UndoLast of a user without weight events has returned
\* (false, Nil) while the log holds the other user's weight event, which is
\* the latest of today, and a water event.
C12_Witness ==
    /\ req["g1"].op = "WeightUndoLast" /\ req["g1"].pc = "done"
    /\ req["g1"].ret.deleted = FALSE
    /\ req["g1"].ret.entry = Nil
    /\ req["g1"].ret.err = "ok"
    /\ Len(weights) = 1 /\ Len(waterEvents) = 1
    /\ weights[1].UserID # req["g1"].userID
    /\ WeightsInDay(weights[1].UserID, Head(req["g1"].today)) = {1}

\* items is what listRecent is claimed to return from the events of the log
\* at the indices mine with the limit given: min(limit, n) distinct events of
\* them, in non-increasing CreatedAt order, none of the events left out being
\* later than one returned.  strip(e) is the stored form of a returned item.
IsRecentList(items, log, mine, limit, strip(_)) ==
    /\ Len(items) = (IF Cardinality(mine) < limit THEN Cardinality(mine) ELSE limit)
    /\ \A k \in 1..Len(items) : \E i \in mine : strip(items[k]) = log[i]
    /\ \A k, m \in 1..Len(items) : k # m => items[k].ID # items[m].ID
    /\ \A k \in 1..(Len(items) - 1) : items[k].CreatedAt >= items[k + 1].CreatedAt
    /\ \A i \in mine :
            (\A k \in 1..Len(items) : items[k].ID # log[i].ID)
                => \A k \in 1..Len(items) : log[i].CreatedAt <= items[k].CreatedAt

\* The stored form of a weight entry and of a water event returned by a list.
StoredWeight(e) == [e EXCEPT !.Day = NoDay]
StoredWater(e) == e

\* C13: ListRecent(user, limit) of the weight and of the water service returns
\* no error and exactly the min(limit, n) events of the user with the greatest
\* CreatedAt, in non-increasing CreatedAt order; the Day of each weight entry
\* is the local day of its own CreatedAt.
C13_ListRecent ==
    \A p \in Procs :
        /\ (req[p].op = "WeightListRecent" /\ req[p].pc = "done")
            => /\ req[p].ret.err = "ok"
               /\ IsRecentList(req[p].ret.items, weights, UserWeights(req[p].userID),
                               req[p].limit, StoredWeight)
               /\ \A k \in 1..Len(req[p].ret.items) :
                    req[p].ret.items[k].Day = <<localDayString(req[p].ret.items[k].CreatedAt)>>
        /\ (req[p].op = "WaterListRecent" /\ req[p].pc = "done")
            => /\ req[p].ret.err = "ok"
               /\ IsRecentList(req[p].ret.items, waterEvents, UserWaters(req[p].userID),
                               req[p].limit, StoredWater)

\* C13 witness: of two weight events of a user the one appended first is the
\* later, and ListRecent(user, 1) has returned it alone, labelled with a day
\* that is not the day of the other event.
C13_Witness ==
    /\ req["g1"].op = "WeightListRecent" /\ req["g1"].pc = "done"
    /\ req["g1"].limit = 1
    /\ UserWeights(req["g1"].userID) = {1, 2}
    /\ weights[1].CreatedAt > weights[2].CreatedAt
    /\ Len(req["g1"].ret.items) = 1
    /\ req["g1"].ret.items[1].ID = weights[1].ID
    /\ req["g1"].ret.items[1].Day # <<localDayString(weights[2].CreatedAt)>>

\* C14: every weight in a point returned by GetDaily carries the requested
\* unit, and its value is that of the latest entry of the point's day: as
\* stored when the stored unit is the requested one, times kgToLb when a kg
\* entry is requested in lb, divided by kgToLb when a lb entry is requested
\* in kg.
C14_DailySeriesUnit ==
    \A p \in Procs :
        (req[p].op = "GetDaily" /\ req[p].pc = "done" /\ req[p].ret.err = "ok")
        => \A k \in 1..Len(req[p].ret.points) :
            LET pt == req[p].ret.points[k]
                inDay == WeightsInDay(req[p].userID, pt.Day)
            IN  pt.Weight # Nil
                => /\ pt.Weight.Unit = req[p].unit
                   /\ \E i \in inDay :
                        /\ \A j \in inDay : weights[j].CreatedAt <= weights[i].CreatedAt
                        /\ pt.Weight.Value =
                            IF weights[i].Unit = req[p].unit THEN weights[i].Value
                            ELSE IF weights[i].Unit = "kg"
                                 THEN [num |-> weights[i].Value.num, lbPow |-> 1]
                                 ELSE [num |-> weights[i].Value.num, lbPow |-> 0 - 1]

\* C14 witness: a series requested in kg holds the weight of an entry stored
\* in lb, divided by kgToLb.
C14_Witness ==
    /\ req["g1"].op = "GetDaily" /\ req["g1"].pc = "done" /\ req["g1"].ret.err = "ok"
    /\ req["g1"].unit = "kg"
    /\ Len(weights) = 1 /\ weights[1].Unit = "lb" /\ weights[1].UserID = req["g1"].userID
    /\ \E k \in 1..Len(req["g1"].ret.points) :
        /\ req["g1"].ret.points[k].Weight # Nil
        /\ req["g1"].ret.points[k].Weight.Unit = "kg"
        /\ req["g1"].ret.points[k].Weight.Value = [num |-> 80, lbPow |-> 0 - 1]

\* C15: GetDaily called with a unit other than kg and lb returns the
\* validation error and no points, whatever days is, and has asked the
\* repository nothing: no failure of the repository shows in its result.
C15_DailySeriesUnitValidation ==
    \A p \in Procs :
        (req[p].op = "GetDaily" /\ req[p].pc = "done"
            /\ req[p].unit # "kg" /\ req[p].unit # "lb")
        => /\ req[p].ret.err = "unit must be kg or lb"
           /\ req[p].ret.points = Nil
           /\ req[p].failed = 0

\* C15 witness: a GetDaily of more than MaxDays days in stones has returned
\* the validation error while the repository fails the queries of another
\* GetDaily.
C15_Witness ==
    /\ req["g1"].op = "GetDaily" /\ req["g1"].pc = "done"
    /\ req["g1"].unit = "stones" /\ req["g1"].days > MaxDays
    /\ req["g1"].ret.err = "unit must be kg or lb"
    /\ req["g2"].op = "GetDaily" /\ req["g2"].pc = "done"
    /\ req["g2"].ret.err = StorageErr

\* C16: a GetDaily one of whose queries failed, for whichever day, returns
\* that failure and no points; one none of whose queries failed returns
\* every point of the range.
C16_DailySeriesNoPartial ==
    \A p \in Procs :
        (req[p].op = "GetDaily" /\ req[p].pc = "done")
        => /\ req[p].failed # 0
                => /\ req[p].ret.err = StorageErr
                   /\ req[p].ret.points = Nil
           /\ req[p].ret.err = "ok"
                => /\ req[p].failed = 0
                   /\ Len(req[p].ret.points) = ClampDays(req[p].days)

\* C16 witness: of a GetDaily of three days over a log holding a water
\* event of the user, a query of the middle day has failed.
C16_Witness ==
    /\ req["g1"].op = "GetDaily" /\ req["g1"].pc = "done"
    /\ req["g1"].days = 3 /\ req["g1"].failed \in {3, 4}
    /\ req["g1"].ret.err = StorageErr
    /\ Len(waterEvents) = 1 /\ waterEvents[1].UserID = req["g1"].userID

\* C17 as stated: every request one of whose repository calls returned an
\* error returns that error.  It fails for the weight UndoLast, whose
\* re-read of the latest entry of today drops the error.
C17_FailuresPropagate ==
    \A p \in Procs :
        (req[p].pc = "done" /\ req[p].failed # 0) => req[p].ret.err = StorageErr

\* C20 as stated: for PUT /api/weight/today and for GET /api/charts/daily,
\* the status written for a request rejected by validation differs from the
\* status written for a request one of whose repository calls failed.  It
\* fails: both handlers write StatusBadRequest for every error.
C20_StatusDistinguishes ==
    \A p \in Procs, q \in Procs :
        (/\ req[p].op \in {"RecordWeight", "GetDaily"} /\ req[q].op = req[p].op
         /\ req[p].status # 0 /\ req[q].status # 0
         /\ req[p].failed = 0 /\ req[p].ret.err # "ok"
         /\ req[q].failed # 0 /\ req[q].ret.err # "ok")
        => req[p].status # req[q].status

\* What the read operations return to user u over the slices ws and es at
\* the instant t.
ReadsOf(ws, es, u, t) ==
    [latest |-> [D \in DayInputs |-> LatestWeightForLocalDay(ws, u, D)],
     total |-> [D \in DayInputs |-> WaterTotalForLocalDay(es, u, D)],
     recentWeight |-> [l \in LimitInputs |-> ListRecentWeightEvents(ws, u, l)],
     recentWater |-> [l \in LimitInputs |-> ListRecentWaterEvents(es, u, l)],
     daily |-> DailyPoints(ws, es, u, t, 2, "kg")]

\* C18: a step of a request of one user leaves the events of every other
\* user in the log and leaves unchanged what every read returns to that
\* other user; DeleteWaterEvent called by one user with the id of an event
\* of another user removes nothing.
C18_UserIsolation ==
    [][\A A \in Users :
        /\ (req'["g1"] # req["g1"] /\ req'["g1"].pc # "idle" /\ req'["g1"].userID # A)
            => /\ filterUser(weights', A) = filterUser(weights, A)
               /\ filterUser(waterEvents', A) = filterUser(waterEvents, A)
               /\ ReadsOf(weights', waterEvents', A, now) = ReadsOf(weights, waterEvents, A, now)
        /\ \A B \in Users \ {A} : \A i \in UserWaters(A) :
                DeleteWaterEvent(waterEvents, B, waterEvents[i].ID) = waterEvents]_vars

\* C18 witness: the weight UndoLast of user 2 has deleted an event while the
\* latest event of the log, appended after it, is of user 1 and still there.
C18_Witness ==
    /\ req["g1"].op = "WeightUndoLast" /\ req["g1"].pc = "done"
    /\ req["g1"].userID = 2 /\ req["g1"].ret.deleted
    /\ weightIDCounter = 2
    /\ Len(weights) = 1 /\ weights[1].UserID = 1 /\ weights[1].ID = 2

\* The ids of the events of a slice.
IDsOf(s) == {s[i].ID : i \in 1..Len(s)}

\* Slice t is slice s with one event of a new id appended.
Appended(s, t) ==
    /\ Len(t) = Len(s) + 1 /\ SubSeq(t, 1, Len(s)) = s
    /\ t[Len(t)].ID \notin IDsOf(s)

\* Slice t is slice s with one event taken out.
Removed(s, t) == \E i \in 1..Len(s) : t = RemoveAt(s, i)

\* C19: the log changes only by one event with a new id being appended, by
\* the add of a RecordWeight or RecordEvent, or by one event being taken
\* out, by the delete of an UndoLast; the events that stay are unchanged
\* and ids are unique and never given twice; the add of a record adds
\* exactly one event; the reads leave the log unchanged.
C19_AppendOnlyLog ==
    [][/\ weights' # weights
            => \/ /\ Appended(weights, weights')
                  /\ req["g1"].op = "RecordWeight" /\ req["g1"].pc = "add"
                  /\ weights'[Len(weights')].ID > weightIDCounter
                  /\ weightIDCounter' = weights'[Len(weights')].ID
               \/ /\ Removed(weights, weights')
                  /\ req["g1"].op = "WeightUndoLast" /\ req["g1"].pc = "delete"
       /\ waterEvents' # waterEvents
            => \/ /\ Appended(waterEvents, waterEvents')
                  /\ req["g1"].op = "RecordEvent" /\ req["g1"].pc = "add"
                  /\ waterEvents'[Len(waterEvents')].ID > waterIDCounter
                  /\ waterIDCounter' = waterEvents'[Len(waterEvents')].ID
               \/ /\ Removed(waterEvents, waterEvents')
                  /\ req["g1"].op = "WaterUndoLast" /\ req["g1"].pc = "delete"
       /\ weights' = weights \/ waterEvents' = waterEvents
       /\ Cardinality(IDsOf(weights')) = Len(weights')
       /\ Cardinality(IDsOf(waterEvents')) = Len(waterEvents')
       /\ (req["g1"].op = "RecordWeight" /\ req["g1"].pc = "add")
            => Len(weights') = Len(weights) + 1
       /\ (req["g1"].op = "RecordEvent" /\ req["g1"].pc = "add")
            => Len(waterEvents') = Len(waterEvents) + 1
       /\ (req'["g1"] # req["g1"]
            /\ req'["g1"].op \in {"WeightListRecent", "WaterListRecent", "GetTodayWeight",
                                  "GetTodayTotal", "GetDaily"})
            => (weights' = weights /\ waterEvents' = waterEvents)]_vars

\* C19 witness: after one append to each slice the water UndoLast has taken
\* the water event out and the weight event is still there.
C19_Witness ==
    /\ req["g1"].op = "WaterUndoLast" /\ req["g1"].pc = "done" /\ req["g1"].ret.undone
    /\ weightIDCounter = 1 /\ waterIDCounter = 1
    /\ Len(waterEvents) = 0 /\ Len(weights) = 1

\* C21: ConvertWeight(v, from, to) returns v when from equals to, whatever
\* the unit, and when (from, to) is neither (kg, lb) nor (lb, kg); every
\* call returns a value.
C21_ConvertIdentity ==
    \A p \in Procs :
        (req[p].op = "ConvertWeight" /\ req[p].pc = "done")
        => /\ (req[p].unit = req[p].ret.to
                \/ <<req[p].unit, req[p].ret.to>> \notin {<<"kg", "lb">>, <<"lb", "kg">>})
                => req[p].ret.out = req[p].value
           /\ req[p].ret.out.num = req[p].value.num

\* C21 witness: a value in stones asked for in lb has come back unchanged,
\* and so has a value in an unknown unit asked for in the same unit.
C21_Witness ==
    /\ req["g1"].op = "ConvertWeight" /\ req["g1"].pc = "done"
    /\ req["g1"].unit = "stones" /\ req["g1"].ret.to = "lb"
    /\ req["g1"].ret.out = Real(80)
    /\ req["g2"].op = "ConvertWeight" /\ req["g2"].pc = "done"
    /\ req["g2"].unit = "stones" /\ req["g2"].ret.to = "stones"
    /\ req["g2"].ret.out = req["g2"].value

\* C22 as stated: ValidateSession of a token under which the repository
\* holds no session returns ErrSessionNotFound, and the middleware then
\* answers StatusUnauthorized.  It fails: both adapters return (nil, nil)
\* for such a token and ValidateSession dereferences the nil session.
C22_AbsentSessionNotFound ==
    \A p \in Procs :
        (req[p].op = "ValidateSession" /\ req[p].stored = Nil)
        => /\ req[p].pc = "done"
           /\ req[p].ret.err = "session not found"
           /\ req[p].status \in {0, StatusUnauthorized}

\* C23 as stated: ValidateSession returns a user only for a session that
\* is stored, has not expired and has the user agent of the request; for a
\* stored session that has expired or has another user agent it returns
\* ErrSessionExpired and the session is gone; and on a token whose session
\* is gone it never returns a user.  It fails for an expired session in the
\* in-memory adapter, whose GetByToken returns (nil, nil) for it.
C23_SessionValidity ==
    \A p \in Procs :
        (req[p].op = "ValidateSession" /\ req[p].failed = 0)
        => /\ (req[p].pc = "done" /\ req[p].ret.err = "ok")
                => /\ req[p].stored # Nil
                   /\ req[p].ret.user # Nil
                   /\ req[p].ret.user.ID = req[p].stored.UserID
                   /\ now <= req[p].stored.ExpiresAt
                   /\ req[p].stored.UserAgent = req[p].userAgent
           /\ (req[p].stored # Nil /\ req[p].pc # "check")
                => ((req[p].now > req[p].stored.ExpiresAt
                        \/ req[p].stored.UserAgent # req[p].userAgent)
                    => /\ req[p].pc = "done"
                       /\ req[p].ret.err = "session expired"
                       /\ SessionOf(sessions, req[p].token) = Nil)

\* C24 as stated: ValidateForwardAuth with a non-empty remoteUser returns a
\* user of that name and no error, the account being in the repository
\* afterwards (created if it was not there, and only then), and the
\* middleware lets the request through as that user.  It fails for a name
\* without account: GetByUsername returns (nil, nil), nothing is created and
\* (nil, nil) is returned.
C24_ForwardAuthCreates ==
    \A p \in Procs :
        (req[p].op = "ValidateForwardAuth" /\ req[p].pc = "done"
            /\ req[p].username # "" /\ req[p].failed = 0)
        => /\ req[p].ret.err = "ok"
           /\ req[p].ret.user # Nil
           /\ req[p].ret.user.Username = req[p].username
           /\ GetByUsername(users, req[p].username) = req[p].ret.user
           /\ req[p].stored # Nil => req[p].ret.user = req[p].stored
           /\ req[p].status \in {0, StatusOK}

\* C25 as stated: of the CreateInitialUser calls of a run at most one
\* creates a user: none creates one when a user that a CreateInitialUser
\* call created (one with a password hash) is in the repository.  It
\* fails: two calls that both counted zero users both create theirs when
\* the usernames differ.
C25_AtMostOneInitialUser ==
    [][\A p \in Procs :
        (req[p].op = "CreateInitialUser" /\ req[p].pc = "create"
            /\ req'[p].pc = "done" /\ req'[p].ret.err = "ok")
        => \A i \in 1..Len(users) : users[i].PasswordHash = ""]_vars

\* C26 as stated: every water UndoLast that returns (true, X) has itself
\* removed event X, and no two calls return the same id.  It fails when
\* two calls of a user read the same event before either deletes it.
C26_UndoneRemovedByItself ==
    \A p \in Procs :
        (req[p].op = "WaterUndoLast" /\ req[p].pc = "done" /\ req[p].ret.undone)
        => /\ req[p].removed # <<>>
           /\ req[p].removed[1].event.ID = req[p].ret.id
           /\ \A q \in Procs \ {p} :
                (req[q].op = "WaterUndoLast" /\ req[q].pc = "done" /\ req[q].ret.undone)
                => req[q].ret.id # req[p].ret.id

\* C26, amended: every water UndoLast that returns (true, X) read X as an
\* event of the user, and X is not in the log when it returns; it removed
\* no event other than X and at most X, and no event is removed by two
\* calls.
C26_UndoneEventGone ==
    \A p \in Procs :
        (req[p].op = "WaterUndoLast" /\ req[p].pc = "done" /\ req[p].ret.undone)
        => /\ req[p].ret.id = req[p].items[1].ID
           /\ req[p].items[1].UserID = req[p].userID
           /\ \A i \in 1..Len(waterEvents) : waterEvents[i].ID # req[p].ret.id
           /\ Len(req[p].removed) <= 1
           /\ req[p].removed # <<>> => req[p].removed[1].event = req[p].items[1]
           /\ \A q \in Procs \ {p} :
                (req[q].op = "WaterUndoLast" /\ req[q].removed # <<>> /\ req[p].removed # <<>>)
                => req[q].removed[1].event.ID # req[p].removed[1].event.ID

\* C26 witness: two UndoLast calls of a user have both returned (true, X)
\* for the same X, which one of them removed and the other did not.
C26_Witness ==
    /\ req["g1"].op = "WaterUndoLast" /\ req["g1"].pc = "done" /\ req["g1"].ret.undone
    /\ req["g2"].op = "WaterUndoLast" /\ req["g2"].pc = "done" /\ req["g2"].ret.undone
    /\ req["g1"].ret.id = req["g2"].ret.id
    /\ req["g1"].removed # <<>> /\ req["g2"].removed = <<>>

\* The sum of WaterLiters over the first k points of a series.
RECURSIVE SumWaterLiters(_, _)
SumWaterLiters(pts, k) ==
    IF k = 0 THEN 0 ELSE pts[k].WaterLiters + SumWaterLiters(pts, k - 1)

\* Indices of the user's water events created in [from, to).
WatersBetween(u, from, to) ==
    {i \in UserWaters(u) : waterEvents[i].CreatedAt >= from /\ waterEvents[i].CreatedAt < to}

\* The local offset is the same at the midnights that begin and end day D.
SameOffset(D) == ZoneOffset(DayStart(D)) = ZoneOffset(DayStart(D + 1))

\* The three parts of C27 for the days and series that satisfy ok: the
\* intervals of consecutive days meet; the clock's instant and the instant
\* of every event lie in the interval of the day they format to; the water
\* of a series of N days sums to the user's events from the start of day
\* today-(N-1) to 24 hours after the start of today.
DaysPartition(ok(_)) ==
    /\ \A D \in DayInputs : ok(D) => DayStart(D) + DayLen = DayStart(D + 1)
    /\ ok(localDayString(now)) => InDay(now, localDayString(now))
    /\ \A i \in 1..Len(waterEvents) :
            ok(localDayString(waterEvents[i].CreatedAt))
            => InDay(waterEvents[i].CreatedAt, localDayString(waterEvents[i].CreatedAt))
    /\ \A i \in 1..Len(weights) :
            ok(localDayString(weights[i].CreatedAt))
            => InDay(weights[i].CreatedAt, localDayString(weights[i].CreatedAt))
    /\ \A p \in Procs :
        (req[p].op = "GetDaily" /\ req[p].pc = "done" /\ req[p].ret.err = "ok"
            /\ Len(req[p].ret.points) > 0 /\ Len(req[p].ret.points) < MaxDays)
        => LET n == Len(req[p].ret.points)
               today == localDayString(req[p].now)
           IN  (\A D \in (today - (n - 1))..today : ok(D))
               => SumWaterLiters(req[p].ret.points, n)
                    = SumDelta(WatersBetween(req[p].userID, DayStart(today - (n - 1)),
                                             DayStart(today) + DayLen))

AnyDay(D) == TRUE

JustRecorded(s, counter, u, before(_, _)) ==
    /\ Len(s) > 0
    /\ s[Len(s)].ID = counter /\ s[Len(s)].UserID = u
    /\ \A j \in 1..(Len(s) - 1) :
            s[j].UserID = u => before(s[j].CreatedAt, s[Len(s)].CreatedAt)

\* An undo of user u that finds the event u recorded last still the last of
\* the log, the clock having moved as before says since u's other events,
\* removes that event and no other: the weight UndoLast in its delete, the
\* water UndoLast in its read and its delete.
UndoTakesJustRecorded(before(_, _)) ==
    \A p \in Procs :
        /\ (req[p].op = "WeightUndoLast" /\ req[p].pc = "delete" /\ req'[p].pc = "reread"
                /\ JustRecorded(weights, weightIDCounter, req[p].userID, before))
            => /\ req'[p].deleted
               /\ weights' = SubSeq(weights, 1, Len(weights) - 1)
        /\ (req[p].pc = "idle" /\ req'[p].op = "WaterUndoLast"
                /\ JustRecorded(waterEvents, waterIDCounter, req'[p].userID, before))
            => /\ req'[p].pc = "delete"
               /\ req'[p].items = <<waterEvents[Len(waterEvents)]>>
        /\ (req[p].op = "WaterUndoLast" /\ req[p].pc = "delete" /\ req'[p].pc = "done"
                /\ JustRecorded(waterEvents, waterIDCounter, req[p].userID, before))
            => /\ req'[p].ret = [undone |-> TRUE, id |-> waterIDCounter, err |-> "ok"]
               /\ waterEvents' = SubSeq(waterEvents, 1, Len(waterEvents) - 1)

NotAfter(t1, t2) == t1 <= t2
Earlier(t1, t2) == t1 < t2

\* C28 as stated: with a clock that never goes backwards but may return the
\* same instant twice, the undo that follows a record removes the event
\* just recorded.  It fails when an earlier event of the user has the
\* instant of the new one.
C28_RecordUndoRoundTrip == [][UndoTakesJustRecorded(NotAfter)]_vars

\* C28, amended: the same with a clock that has advanced since every
\* earlier event of the user.
C28_RecordUndoLaterInstant == [][UndoTakesJustRecorded(Earlier)]_vars

\* C28 witness: of two weight events of a user the one recorded second, at
\* a later instant, has been undone and the first is the log again.
C28_Witness ==
    /\ req["g1"].op = "WeightUndoLast" /\ req["g1"].pc = "done" /\ req["g1"].ret.deleted
    /\ weightIDCounter = 2
    /\ Len(weights) = 1 /\ weights[1].ID = 1 /\ weights[1].UserID = req["g1"].userID
    /\ weights[1].CreatedAt < now

\* C29: in a successful response of PUT /api/weight/today the today field
\* is the local day the returned entry was computed for, and in a
\* successful response of GET /api/charts/daily it is the day of the last
\* item, also when local midnight passes during the request.
C29_TodayIsEntryDay ==
    \A p \in Procs :
        req[p].status = StatusOK =>
            /\ (req[p].handler = "handleWeightToday" => req[p].hToday = req[p].ret.today)
            /\ (req[p].handler = "handleChartsDaily" /\ Len(req[p].ret.points) > 0
                    => req[p].hToday
                        = <<req[p].ret.points[Len(req[p].ret.points)].Day>>)

\* C30: GetDaily returns for every days and valid unit, with no point and
\* no error for days <= 0, and handleChartsDaily calls it with days > 0
\* only.
C30_GetDailyTerminates ==
    \A p \in Procs :
        req[p].op = "GetDaily" =>
            /\ req[p].pc # "panic"
            /\ (req[p].pc = "done" /\ req[p].days <= 0 /\ req[p].unit \in {"kg", "lb"}
                    => req[p].ret.err = "ok" /\ req[p].ret.points = <<>>)
            /\ (req[p].handler = "handleChartsDaily" => req[p].days > 0)

====
